---------------------------- MODULE Spec2Model ----------------------------
(***************************************************************************)
(* Lowball Blitz: the event bus, the game state record and the per-frame   *)
(* orchestrator, modelled as state machines.                               *)
(*                                                                         *)
(* Units: time in milliseconds, lengths in milli-units (1/1000 of a world  *)
(* unit), speed in milli-units per second.                                 *)
(***************************************************************************)
EXTENDS Integers, Sequences, FiniteSets, TLC

VARIABLES
    listeners,   \* EventBus.listeners: topic -> array of subscriptions
    nextReg,     \* number of on() calls made so far (orders the registrations)
    lastEmit,    \* what the last emit() call did
    gs,          \* the GameState singleton
    op,          \* the last GameState method called: name, argument, returned
                 \* number (points) or returned boolean (expired, isDead)
    game,        \* the Game object: what it was last asked to do, its restarts
    player,      \* Game.player (with its envelopes)
    streetGen,   \* Game.streetGen (houses, agents, generation cursors)
    homeowners,  \* Game.homeowners
    panicPoints, \* Game.panicPoints
    spectacle,   \* Game.spectacle (the fields that reach the game state)
    events,      \* the events emitted by the last step, in order
    storage      \* localStorage's item 'lowball-blitz-muted'

vars == <<listeners, nextReg, lastEmit, gs, op,
          game, player, streetGen, homeowners, panicPoints, spectacle, events, storage>>

busVars == <<listeners, nextReg, lastEmit>>
stateVars == <<gs, op>>
gameVars == <<game, player, streetGen, homeowners, panicPoints, spectacle, events>>

Min(a, b) == IF a < b THEN a ELSE b
Max(a, b) == IF a > b THEN a ELSE b

(***************************************************************************)
(* Program constants (core/Constants.js)                                   *)
(***************************************************************************)
LIVES == 3
AUTO_SPEED == 8
TIMEOUT_MS == 3000
MULTIPLIER_CAP == 10

\* one world unit (or unit per second) in the model's fixed-point representation
UNIT == 10 * 10 * 10

\* GAME, PLAYER, STREET (ms, milli-units, milli-units per second)
MAX_DELTA == 50
INVINCIBILITY_DURATION == 1500
LANE_SPEED == 8000
STREET_WIDTH == 10000
LANE_MIN == -4000
LANE_MAX == 4000
HOUSE_OFFSET_X == 7000
SEGMENT_LENGTH == 40000

\* ENVELOPE
ENVELOPE_SPEED == 30000
COOLDOWN == 350
MAX_DISTANCE == 40000
TARGET_RANGE == 30000
COLLISION_THRESHOLD == 3000

\* HOUSE
SPACING_Z == 6000
SPAWN_DISTANCE == 80000
CLEANUP_DISTANCE == 20000

\* HOMEOWNER, PANIC_POINT
HOMEOWNER_SPEED == 3000
PANIC_DURATION == 3000
DROP_INTERVAL == 400
COLLECT_RADIUS == 1200
LIFETIME == 8000
FLASH_DURATION == 150

\* AGENT
AGENT_SPEED == 4000
SPAWN_INTERVAL == 3000
AGENT_SPAWN_DISTANCE == 50000
COLLISION_RADIUS == 700
MIN_SPAWN_INTERVAL == 1000

\* GAMEPLAY, SPECTACLE
SPEED_INCREASE_RATE == 150
MAX_SPEED == 25000
NEAR_MISS_SLOWMO_FACTOR == 700      \* 0.7, in thousandths
NEAR_MISS_SLOWMO_DURATION == 100
ENTRANCE_FLASH_DURATION == 300
HIT_SHAKE_DURATION == 200
PANIC_FLASH_DURATION == 150
COMBO_SHAKE_DURATION == 300
STREAK_FLASH_DURATION == 400
DAMAGE_SHAKE_DURATION == 400
PLAYER_HIT_FLASH_DURATION == 400   \* the literal 0.4 of _onPlayerHit

(***************************************************************************)
(* Bounds of the model                                                     *)
(***************************************************************************)
MaxSubs == 3        \* subscriptions per topic
MaxReg == 4         \* on() calls in a run
MaxScore == 12      \* addScore is not called past this score
MaxCombo == 11      \* incrementCombo is not called past this combo
MaxDebt == 1        \* loseLife is not called once lives is below -MaxDebt + 1

(***************************************************************************)
(* EventBus (core/EventBus.js)                                             *)
(***************************************************************************)
Topics == {"game:over", "score:changed"}

\* The callbacks a subscriber may register, by what they do when called:
\*   "ok1", "ok2"  return normally
\*   "bad"         throws
\*   "once"        unsubscribes itself (calls off) and returns normally
Callbacks == {"ok1", "ok2", "bad", "once"}

Throws(cb) == cb = "bad"

NoEmit == [topic |-> "none", snapshot |-> <<>>, delivered |-> <<>>,
           errors |-> 0, returned |-> TRUE]

\* a new bus: `this.listeners = {}`
EventBusNew == [t \in Topics |-> <<>>]

\* a subscription put at the head of the array instead of its end
OnUnshift(arr, sub) == <<sub>> \o arr

\* on(event, callback): push onto the topic's array
OnPush(arr, sub) == Append(arr, sub)

On(ls, topic, cb, reg) == [ls EXCEPT ![topic] = OnPush(ls[topic], [cb |-> cb, reg |-> reg])]

\* off(event, callback): a new array without the callback
Off(ls, topic, cb) ==
    [ls EXCEPT ![topic] = SelectSeq(ls[topic], LAMBDA s : s.cb # cb)]

\* one callback invocation inside emit's forEach: its effect on the bus
CallbackEffect(ls, topic, sub) ==
    IF sub.cb = "once" THEN Off(ls, topic, sub.cb) ELSE ls

\* try { callback(data) } catch (err) { console.error(...) }: the loop goes on
RECURSIVE EmitFrom(_, _, _, _)
EmitFrom(arr, i, topic, st) ==
    IF i > Len(arr) THEN st
    ELSE EmitFrom(arr, i + 1, topic,
            [st EXCEPT !.ls = CallbackEffect(st.ls, topic, arr[i]),
                       !.delivered = Append(st.delivered, arr[i]),
                       !.errors = st.errors + (IF Throws(arr[i].cb) THEN 1 ELSE 0)])

\* the same loop without the try/catch: the first throw leaves emit
RECURSIVE EmitFromNoCatch(_, _, _, _)
EmitFromNoCatch(arr, i, topic, st) ==
    IF i > Len(arr) THEN st
    ELSE IF Throws(arr[i].cb)
         THEN [st EXCEPT !.delivered = Append(st.delivered, arr[i]),
                         !.returned = FALSE]
         ELSE EmitFromNoCatch(arr, i + 1, topic,
                [st EXCEPT !.ls = CallbackEffect(st.ls, topic, arr[i]),
                           !.delivered = Append(st.delivered, arr[i])])

EmitLoopNoCatch(arr, topic, st) == EmitFromNoCatch(arr, 1, topic, st)

\* emit(event, data): forEach over the array the topic has when emit is called
EmitLoop(arr, topic, st) == EmitFrom(arr, 1, topic, st)

EmitResult(ls, topic) ==
    EmitLoop(ls[topic], topic,
             [ls |-> ls, delivered |-> <<>>, errors |-> 0, returned |-> TRUE])

BusOn ==
    /\ nextReg < MaxReg
    /\ \E t \in Topics, cb \in Callbacks :
          /\ Len(listeners[t]) < MaxSubs
          /\ listeners' = On(listeners, t, cb, nextReg + 1)
    /\ nextReg' = nextReg + 1
    /\ lastEmit' = NoEmit
    /\ UNCHANGED <<storage, stateVars, gameVars>>

BusOff ==
    /\ \E t \in Topics, cb \in Callbacks : listeners' = Off(listeners, t, cb)
    /\ lastEmit' = NoEmit
    /\ UNCHANGED <<storage, nextReg, gs, op, gameVars>>

BusEmit ==
    /\ \E t \in Topics :
          LET r == EmitResult(listeners, t) IN
          /\ listeners' = r.ls
          /\ lastEmit' = [topic |-> t, snapshot |-> listeners[t],
                          delivered |-> r.delivered, errors |-> r.errors,
                          returned |-> r.returned]
    /\ UNCHANGED <<storage, nextReg, gs, op, gameVars>>

BusRemoveAll ==
    /\ listeners' = EventBusNew
    /\ lastEmit' = NoEmit
    /\ UNCHANGED <<storage, nextReg, gs, op, gameVars>>

(***************************************************************************)
(* GameState (core/GameState.js)                                           *)
(***************************************************************************)
\* what localStorage.getItem('lowball-blitz-muted') may give at startup
StoredValues == {"true", "false", "null", "1", "throws"}

\* the stored items the sessions below start from: a saved 'true' and no item
StartValues == {"true", "null"}

\* a read that takes any stored item but 'false' for a saved mute
ReadMutedLoose(stored) ==
    IF stored = "throws" THEN FALSE ELSE stored \in {"true", "1"}

\* try { localStorage.getItem(...) === 'true' } catch (_) { false }
ReadMuted(stored) == IF stored = "throws" THEN FALSE ELSE stored = "true"

\* the object before the constructor's reset(): it has no field yet
GameStateBlank == <<>>

Has(g, field) == field \in DOMAIN g

\* `this.bestScore || 0`, `this.bestCombo || 0`
OrZero(g, field) == IF ~Has(g, field) \/ g[field] = 0 THEN 0 ELSE g[field]

\* if (this.isMuted === undefined) { this.isMuted = <stored preference> }
KeepMuted(g, stored) == IF ~Has(g, "isMuted") THEN ReadMuted(stored) ELSE g.isMuted

\* a reset that also forgets the best score and the best combo
ResetForgetful(g, stored) ==
    [score |-> 0, bestScore |-> 0, started |-> FALSE, gameOver |-> FALSE,
     lives |-> LIVES, combo |-> 0, bestCombo |-> 0,
     currentSpeed |-> AUTO_SPEED * UNIT, housesHit |-> 0, totalThrown |-> 0,
     isMuted |-> KeepMuted(g, stored),
     comboTimer |-> 0]

\* reset()
Reset(g, stored) ==
    [score |-> 0,
     bestScore |-> OrZero(g, "bestScore"),
     started |-> FALSE,
     gameOver |-> FALSE,
     lives |-> LIVES,
     combo |-> 0,
     bestCombo |-> OrZero(g, "bestCombo"),
     currentSpeed |-> AUTO_SPEED * UNIT,
     housesHit |-> 0,
     totalThrown |-> 0,
     isMuted |-> KeepMuted(g, stored),
     comboTimer |-> 0]

\* constructor() { this.reset(); }
GameStateNew(stored) == Reset(GameStateBlank, stored)

\* the multiplier without the cap
MultiplierUncapped(combo) == Max(1, combo)

\* Math.max(1, Math.min(this.combo, COMBO.MULTIPLIER_CAP))
Multiplier(combo) == Max(1, Min(combo, MULTIPLIER_CAP))

\* addScore that does not keep the best score
AddScoreNoBest(g, points) ==
    LET finalPoints == points * Multiplier(g.combo) IN
    [g |-> [g EXCEPT !.score = g.score + finalPoints], ret |-> finalPoints]

\* addScore that ignores the combo multiplier
AddScoreFlat(g, points) ==
    LET score == g.score + points
    IN [g |-> [g EXCEPT !.score = score,
                        !.bestScore = IF score > g.bestScore THEN score
                                      ELSE g.bestScore],
        ret |-> points]

\* addScore(points = 1) -> finalPoints
AddScore(g, points) ==
    LET finalPoints == points * Multiplier(g.combo)
        score == g.score + finalPoints
    IN [g |-> [g EXCEPT !.score = score,
                        !.bestScore = IF score > g.bestScore THEN score
                                      ELSE g.bestScore],
        ret |-> finalPoints]

\* incrementCombo that leaves the timer alone
IncrementComboNoTimer(g) ==
    [g EXCEPT !.combo = g.combo + 1,
              !.bestCombo = IF g.combo + 1 > g.bestCombo THEN g.combo + 1
                            ELSE g.bestCombo]

\* incrementCombo()
IncrementCombo(g) ==
    [g EXCEPT !.combo = g.combo + 1,
              !.bestCombo = IF g.combo + 1 > g.bestCombo THEN g.combo + 1
                            ELSE g.bestCombo,
              !.comboTimer = TIMEOUT_MS]

\* resetCombo()
ResetCombo(g) == [g EXCEPT !.combo = 0, !.comboTimer = 0]

\* updateComboTimer that reports expiry whenever the timer is not running
UpdateComboTimerEager(g, deltaMs) ==
    IF g.combo > 0 /\ g.comboTimer > 0
    THEN LET t == g.comboTimer - deltaMs IN
         IF t <= 0 THEN [g |-> ResetCombo([g EXCEPT !.comboTimer = t]), ret |-> TRUE]
         ELSE [g |-> [g EXCEPT !.comboTimer = t], ret |-> FALSE]
    ELSE [g |-> g, ret |-> g.comboTimer <= 0]

\* updateComboTimer(deltaMs) -> expired
UpdateComboTimer(g, deltaMs) ==
    IF g.combo > 0 /\ g.comboTimer > 0
    THEN LET t == g.comboTimer - deltaMs IN
         IF t <= 0 THEN [g |-> ResetCombo([g EXCEPT !.comboTimer = t]), ret |-> TRUE]
         ELSE [g |-> [g EXCEPT !.comboTimer = t], ret |-> FALSE]
    ELSE [g |-> g, ret |-> FALSE]

\* loseLife() -> isDead
LoseLife(g) ==
    LET lives == g.lives - 1 IN
    [g |-> [g EXCEPT !.lives = lives], ret |-> lives <= 0]

(***************************************************************************)
(* The GameState methods called in any order                               *)
(***************************************************************************)
Bases == 0 .. 1
DeltasMs == {1000, 3000}

NoOp == [name |-> "new", arg |-> 0, points |-> 0, flag |-> FALSE]

CallReset ==
    /\ gs' = Reset(gs, "null")
    /\ op' = [name |-> "reset", arg |-> 0, points |-> 0, flag |-> FALSE]
    /\ UNCHANGED <<storage, busVars, gameVars>>

CallAddScore ==
    /\ \E points \in Bases :
          LET r == AddScore(gs, points) IN
          /\ r.g.score <= MaxScore
          /\ gs' = r.g
          /\ op' = [name |-> "addScore", arg |-> points, points |-> r.ret, flag |-> FALSE]
    /\ UNCHANGED <<storage, busVars, gameVars>>

CallIncrementCombo ==
    /\ gs.combo < MaxCombo
    /\ gs' = IncrementCombo(gs)
    /\ op' = [name |-> "incrementCombo", arg |-> 0, points |-> 0, flag |-> FALSE]
    /\ UNCHANGED <<storage, busVars, gameVars>>

CallResetCombo ==
    /\ gs' = ResetCombo(gs)
    /\ op' = [name |-> "resetCombo", arg |-> 0, points |-> 0, flag |-> FALSE]
    /\ UNCHANGED <<storage, busVars, gameVars>>

CallUpdateComboTimer ==
    /\ \E d \in DeltasMs :
          LET r == UpdateComboTimer(gs, d) IN
          /\ gs' = r.g
          /\ op' = [name |-> "updateComboTimer", arg |-> d, points |-> 0, flag |-> r.ret]
    /\ UNCHANGED <<storage, busVars, gameVars>>

CallLoseLife ==
    /\ gs.lives > -MaxDebt
    /\ LET r == LoseLife(gs) IN
          /\ gs' = r.g
          /\ op' = [name |-> "loseLife", arg |-> 0, points |-> 0, flag |-> r.ret]
    /\ UNCHANGED <<storage, busVars, gameVars>>

(***************************************************************************)
(* Fixed-point geometry                                                    *)
(***************************************************************************)
Abs(a) == IF a < 0 THEN -a ELSE a

\* a / b rounded toward zero (b > 0)
Quot(a, b) == IF a >= 0 THEN a \div b ELSE -((-a) \div b)

\* rate * delta for a rate per second and a delta in ms; a * f for f in
\* thousandths
Scale(a, b) == Quot(a * b, 1000)

\* Math.sqrt(dx * dx + dz * dz) < r
Within(dx, dz, r) == Abs(dx) < r /\ Abs(dz) < r /\ dx * dx + dz * dz < r * r

\* dx * dx + dz * dz, on which distances are compared
Dist2(dx, dz) == dx * dx + dz * dz

RECURSIVE SqrtBetween(_, _, _)
SqrtBetween(n, lo, hi) ==
    IF lo >= hi THEN lo
    ELSE LET mid == (lo + hi + 1) \div 2 IN
         IF mid * mid <= n THEN SqrtBetween(n, mid, hi)
         ELSE SqrtBetween(n, lo, mid - 1)

\* Math.sqrt, rounded down
Sqrt(n) == SqrtBetween(n, 0, 46340)

\* new THREE.Vector3(dx, 0, dz).normalize(), in thousandths
Normalize(dx, dz) ==
    LET len == Sqrt(Dist2(dx, dz)) IN
    IF len = 0 THEN [x |-> 0, z |-> 0]
    ELSE [x |-> Quot(dx * 1000, len), z |-> Quot(dz * 1000, len)]

(***************************************************************************)
(* Entities (entities/*.js)                                                *)
(***************************************************************************)
\* new House(x, z, side)
HouseNew(x, z, side) == [x |-> x, z |-> z, side |-> side, isHit |-> FALSE]

\* a house that can be hit again and again
HitAlways(h) == [h EXCEPT !.isHit = FALSE]

\* House.hit()
HouseHit(h) == IF h.isHit THEN h ELSE [h EXCEPT !.isHit = TRUE]

\* new Agent(laneX, spawnZ)
AgentNew(x, z) == [x |-> x, z |-> z, alive |-> TRUE, hasCollided |-> FALSE]

\* an update that also forgets that the agent has collided
AgentUpdateForgets(a, delta, playerZ) ==
    IF ~a.alive THEN a
    ELSE LET z == a.z + Scale(AGENT_SPEED, delta) IN
         [a EXCEPT !.z = z, !.alive = ~(z > playerZ + 10 * UNIT), !.hasCollided = FALSE]

\* Agent.update(delta, playerZ)
AgentUpdate(a, delta, playerZ) ==
    IF ~a.alive THEN a
    ELSE LET z == a.z + Scale(AGENT_SPEED, delta) IN
         [a EXCEPT !.z = z, !.alive = ~(z > playerZ + 10 * UNIT)]

\* Agent.checkPlayer(playerPos)
AgentCheckPlayer(a, px, pz) ==
    /\ a.alive
    /\ ~a.hasCollided
    /\ Within(a.x - px, a.z - pz, COLLISION_RADIUS)

\* new Envelope(startPos, direction, targetPos)
EnvelopeNew(x, z, dir) ==
    [x |-> x, z |-> z, dirX |-> dir.x, dirZ |-> dir.z,
     distanceTraveled |-> 0, alive |-> TRUE]

\* an update without the early return of a dead envelope
EnvelopeUpdateRevives(e, delta) ==
    LET moveAmount == Scale(ENVELOPE_SPEED, delta)
        traveled == e.distanceTraveled + moveAmount
    IN [e EXCEPT !.x = e.x + Scale(e.dirX, moveAmount),
                 !.z = e.z + Scale(e.dirZ, moveAmount),
                 !.distanceTraveled = traveled,
                 !.alive = ~(traveled >= MAX_DISTANCE)]

\* Envelope.update(delta)
EnvelopeUpdate(e, delta) ==
    IF ~e.alive THEN e
    ELSE LET moveAmount == Scale(ENVELOPE_SPEED, delta)
             traveled == e.distanceTraveled + moveAmount
         IN [e EXCEPT !.x = e.x + Scale(e.dirX, moveAmount),
                      !.z = e.z + Scale(e.dirZ, moveAmount),
                      !.distanceTraveled = traveled,
                      !.alive = ~(traveled >= MAX_DISTANCE)]

\* Envelope.checkHouse(house)
CheckHouse(e, h) ==
    /\ e.alive
    /\ ~h.isHit
    /\ Within(e.x - h.x, e.z - h.z, COLLISION_THRESHOLD)

\* new Homeowner(housePos, side) with the run direction its random draws gave
HomeownerNew(h, dir) ==
    [x |-> IF h.side = "left" THEN h.x + 2 * UNIT ELSE h.x - 2 * UNIT,
     z |-> h.z,
     dirX |-> (IF h.side = "left" THEN 1 ELSE -1) * dir.x,
     dirZ |-> dir.z,
     timeAlive |-> 0, dropTimer |-> 0, alive |-> TRUE, pendingDrops |-> <<>>]

\* Homeowner.update(delta), the direction kept
HomeownerUpdate(hw, delta) ==
    IF ~hw.alive THEN hw
    ELSE LET timeAlive == hw.timeAlive + delta
             dropTimer == hw.dropTimer + delta
             drops == dropTimer >= DROP_INTERVAL
             x == hw.x + Scale(hw.dirX, Scale(HOMEOWNER_SPEED, delta))
             z == hw.z + Scale(hw.dirZ, Scale(HOMEOWNER_SPEED, delta))
         IN [hw EXCEPT !.timeAlive = timeAlive,
                       !.x = x,
                       !.z = z,
                       !.dropTimer = IF drops THEN dropTimer - DROP_INTERVAL
                                     ELSE dropTimer,
                       !.pendingDrops = IF drops
                                        THEN Append(hw.pendingDrops, [x |-> x, z |-> z])
                                        ELSE hw.pendingDrops,
                       !.alive = ~(timeAlive >= PANIC_DURATION)]

\* Homeowner.consumeDrops(): the positions returned and the homeowner left
ConsumeDrops(hw) ==
    [drops |-> hw.pendingDrops, hw |-> [hw EXCEPT !.pendingDrops = <<>>]]

\* new PanicPoint(x, z)
PanicPointNew(x, z) ==
    [x |-> x, z |-> z, alive |-> TRUE, collected |-> FALSE,
     timeAlive |-> 0, flashTimer |-> 0]

\* PanicPoint.update(delta)
PanicPointUpdate(pp, delta) ==
    IF ~pp.alive THEN pp
    ELSE LET timeAlive == pp.timeAlive + delta IN
         IF pp.flashTimer > 0
         THEN [pp EXCEPT !.timeAlive = timeAlive,
                         !.flashTimer = pp.flashTimer - delta,
                         !.alive = ~(pp.flashTimer - delta <= 0)]
         ELSE [pp EXCEPT !.timeAlive = timeAlive,
                         !.alive = ~(timeAlive >= LIFETIME)]

\* PanicPoint.checkPlayer(playerPos)
PanicPointCheckPlayer(pp, px, pz) ==
    /\ ~pp.collected
    /\ pp.alive
    /\ Within(pp.x - px, pp.z - pz, COLLECT_RADIUS)

\* a collect that starts the flash and forgets that the point was collected
PanicPointCollectForgets(pp) == [pp EXCEPT !.flashTimer = FLASH_DURATION]

\* PanicPoint.collect(): the point afterwards (it returns true iff it was
\* not collected before)
PanicPointCollect(pp) ==
    IF pp.collected THEN pp
    ELSE [pp EXCEPT !.collected = TRUE, !.flashTimer = FLASH_DURATION]

(***************************************************************************)
(* StreetGenerator (systems/StreetGenerator.js)                            *)
(***************************************************************************)
\* The outcomes of Math.random() are drawn by the environment.  A street is
\* laid out by the draws of its generator, fixed per session by `seed`:
\*   seed 1: every draw is above 0.2, every row has both houses;
\*   seed 2: only every other row has a house, on the left;
\*   seed 3: only every fourth row has a house, on the right;
\*   seed 4: every row has one house, on the right and on the left in turn.
Seeds == {1, 2}

\* Math.random() > 0.2 for the house of the row at z on this side
RandomHouse(seed, z, side) ==
    IF seed = 1 THEN TRUE
    ELSE IF seed = 2 THEN side = "left" /\ ((10 * UNIT - z) \div SPACING_Z) % 2 = 0
    ELSE IF seed = 3 THEN side = "right" /\ ((10 * UNIT - z) \div SPACING_Z) % 4 = 0
    ELSE (side = "right") = (((10 * UNIT - z) \div SPACING_Z) % 2 = 0)

\* a row that is put two spacings further than the mark says
GenerateRowAhead(st, z) ==
    [st EXCEPT !.houses = st.houses \o <<HouseNew(-HOUSE_OFFSET_X, z - 2 * SPACING_Z, "left")>>]

\* _generateRow(z)
GenerateRow(st, z) ==
    LET left == IF RandomHouse(st.seed, z, "left")
                THEN <<HouseNew(-HOUSE_OFFSET_X, z, "left")>> ELSE <<>>
        right == IF RandomHouse(st.seed, z, "right")
                 THEN <<HouseNew(HOUSE_OFFSET_X, z, "right")>> ELSE <<>>
    IN [st EXCEPT !.houses = st.houses \o left \o right]

\* the loop as an `if`: at most one row is generated
GenerateRowsOnce(st, limit) ==
    IF st.generatedZ > limit
    THEN [st EXCEPT !.houses = st.houses \o <<HouseNew(-HOUSE_OFFSET_X, st.generatedZ, "left")>>,
                    !.generatedZ = st.generatedZ - SPACING_Z]
    ELSE st

\* while (this._generatedZ > limit) { _generateRow; _generatedZ -= SPACING_Z }
RECURSIVE GenerateRows(_, _)
GenerateRows(st, limit) ==
    IF st.generatedZ > limit
    THEN GenerateRows([GenerateRow(st, st.generatedZ)
                          EXCEPT !.generatedZ = st.generatedZ - SPACING_Z], limit)
    ELSE st

\* the fields reset() and the constructor set, before _generateInitial()
StreetGeneratorBlank(seed) ==
    [exists |-> TRUE, houses |-> <<>>, agents |-> <<>>,
     generatedZ |-> 10 * UNIT,
     lastStreetEnd |-> -SPAWN_DISTANCE - 20 * UNIT,
     agentTimer |-> SPAWN_INTERVAL,
     seed |-> seed]

\* _generateInitial()
GenerateInitial(st) == GenerateRows(st, -SPAWN_DISTANCE)

\* new StreetGenerator(scene)
StreetGeneratorNew(seed) == GenerateInitial(StreetGeneratorBlank(seed))

\* a reset that keeps the agents and their timer
StreetGeneratorResetKeepsAgents(st, seed) ==
    [GenerateInitial(StreetGeneratorBlank(seed))
        EXCEPT !.agents = st.agents, !.agentTimer = st.agentTimer]

\* reset()
StreetGeneratorReset(st, seed) == GenerateInitial(StreetGeneratorBlank(seed))

\* Game.streetGen before startGame(): null
NoStreetGenerator == [StreetGeneratorBlank(1) EXCEPT !.exists = FALSE]

\* _spawnAgent(playerZ), the random lane given
SpawnAgent(st, playerZ, laneX) ==
    [st EXCEPT !.agents = Append(st.agents, AgentNew(laneX, playerZ - AGENT_SPAWN_DISTANCE))]

\* the spawn interval for the current speed: Math.max(MIN_SPAWN_INTERVAL,
\* SPAWN_INTERVAL * (1 - (currentSpeed / 25) * 0.5))
SpawnIntervalFor(currentSpeed) ==
    Max(MIN_SPAWN_INTERVAL,
        SPAWN_INTERVAL - Quot(SPAWN_INTERVAL * currentSpeed, 2 * 25 * UNIT))

\* the agent timer step of update(): `jitter` is (Math.random() - 0.5) * 0.5
\* in thousandths
SpawnStep(st, delta, playerZ, currentSpeed, laneX, jitter) ==
    LET timer == st.agentTimer - delta IN
    IF timer <= 0
    THEN LET interval == SpawnIntervalFor(currentSpeed) IN
         [SpawnAgent(st, playerZ, laneX)
             EXCEPT !.agentTimer = interval + Scale(jitter, interval)]
    ELSE [st EXCEPT !.agentTimer = timer]

\* a cleanup that leaves the dead agents in the pool
CleanupKeepsAgents(st, playerZ) ==
    [st EXCEPT
       !.houses = SelectSeq(st.houses,
                            LAMBDA h : ~(h.z > playerZ + CLEANUP_DISTANCE))]

\* a cleanup that also takes away the houses that were hit
CleanupDropsHit(st, playerZ) ==
    [st EXCEPT
       !.houses = SelectSeq(st.houses,
                            LAMBDA h : ~h.isHit /\ ~(h.z > playerZ + CLEANUP_DISTANCE)),
       !.agents = SelectSeq(st.agents, LAMBDA a : a.alive)]

\* _cleanup(playerZ)
Cleanup(st, playerZ) ==
    [st EXCEPT
       !.houses = SelectSeq(st.houses,
                            LAMBDA h : ~(h.z > playerZ + CLEANUP_DISTANCE)),
       !.agents = SelectSeq(st.agents, LAMBDA a : a.alive)]

\* update(delta, playerZ)
StreetGeneratorUpdate(st, delta, playerZ, currentSpeed, laneX, jitter) ==
    LET s1 == GenerateRows(st, playerZ - SPAWN_DISTANCE)
        s2 == IF playerZ - 40 * UNIT < s1.lastStreetEnd
              THEN [s1 EXCEPT !.lastStreetEnd = s1.lastStreetEnd - SEGMENT_LENGTH]
              ELSE s1
        s3 == SpawnStep(s2, delta, playerZ, currentSpeed, laneX, jitter)
        s4 == [s3 EXCEPT !.agents =
                  [i \in 1 .. Len(s3.agents) |-> AgentUpdate(s3.agents[i], delta, playerZ)]]
    IN Cleanup(s4, playerZ)

\* getHousesInRange(z, range): the indices of the houses it returns, in order
HousesInRange(st, z, range) ==
    {i \in 1 .. Len(st.houses) :
        ~st.houses[i].isHit /\ Abs(st.houses[i].z - z) < range}

\* getAgentsInRange(z, range)
AgentsInRange(st, z, range) ==
    {i \in 1 .. Len(st.agents) :
        /\ st.agents[i].alive
        /\ ~st.agents[i].hasCollided
        /\ Abs(st.agents[i].z - z) < range}

(***************************************************************************)
(* The game world: the objects one frame reads and writes, as one record   *)
(* w = [gs, player, streetGen, homeowners, panicPoints, spectacle, events] *)
(***************************************************************************)
\* the events whose data carry `combo: gameState.combo` (or the literal 0 just
\* after the combo was reset)
ComboEvents == {"combo:changed", "house:hit", "spectacle:hit",
                "spectacle:combo", "spectacle:streak"}

\* the events whose data carry `score: gameState.score`
ScoreEvents == {"score:changed", "panic:collected", "game:over"}

Ev(name, x, z, combo) ==
    [name |-> name, x |-> x, z |-> z, combo |-> combo, score |-> 0]

\* new SpectacleSystem(scene, camera)
SpectacleNew ==
    [slowMoTimer |-> 0, slowMoOriginalSpeed |-> 0, hasLastPlayerPos |-> FALSE,
     flashTimer |-> 0, shakeTimer |-> 0]

\* a reset that leaves the slow-motion timer running
SpectacleResetKeepsSlowMo(sp) == [sp EXCEPT !.flashTimer = 0, !.shakeTimer = 0]

\* SpectacleSystem.reset()
SpectacleReset(sp) == [sp EXCEPT !.flashTimer = 0, !.shakeTimer = 0, !.slowMoTimer = 0]

\* SpectacleSystem._onEntrance()
OnEntrance(w) == [w EXCEPT !.spectacle.flashTimer = ENTRANCE_FLASH_DURATION]

\* SpectacleSystem._onPanicCollected(data)
OnPanicCollected(w) ==
    IF ~w.spectacle.hasLastPlayerPos THEN w
    ELSE [w EXCEPT !.spectacle.flashTimer = PANIC_FLASH_DURATION]

\* SpectacleSystem._onCombo(data)
OnCombo(w) ==
    IF ~w.spectacle.hasLastPlayerPos THEN w
    ELSE [w EXCEPT !.spectacle.shakeTimer = COMBO_SHAKE_DURATION]

\* SpectacleSystem._onStreak(data)
OnStreak(w) ==
    IF ~w.spectacle.hasLastPlayerPos THEN w
    ELSE [w EXCEPT !.spectacle.flashTimer = STREAK_FLASH_DURATION]

\* SpectacleSystem._onPlayerHit()
OnPlayerHit(w) ==
    IF ~w.spectacle.hasLastPlayerPos THEN w
    ELSE [w EXCEPT !.spectacle.flashTimer = PLAYER_HIT_FLASH_DURATION,
                   !.spectacle.shakeTimer = DAMAGE_SHAKE_DURATION]

\* a house-hit handler that adds a point to read the multiplier
OnHouseHitScores(w) ==
    [w EXCEPT !.gs = AddScore(w.gs, 1).g, !.spectacle.shakeTimer = HIT_SHAKE_DURATION]

\* SpectacleSystem._onHouseHit(data): gameState.addScore(0)
OnHouseHit(w) ==
    [w EXCEPT !.gs = AddScore(w.gs, 0).g, !.spectacle.shakeTimer = HIT_SHAKE_DURATION]

\* a near-miss handler that starts the slow motion even while one is running
OnNearMissAlways(w) ==
    IF ~w.spectacle.hasLastPlayerPos THEN w
    ELSE [w EXCEPT !.spectacle.slowMoOriginalSpeed = w.gs.currentSpeed,
                   !.gs.currentSpeed = Scale(w.gs.currentSpeed, NEAR_MISS_SLOWMO_FACTOR),
                   !.spectacle.slowMoTimer = NEAR_MISS_SLOWMO_DURATION]

\* SpectacleSystem._onNearMiss()
OnNearMiss(w) ==
    IF ~w.spectacle.hasLastPlayerPos THEN w
    ELSE IF w.spectacle.slowMoTimer <= 0
    THEN [w EXCEPT !.spectacle.slowMoOriginalSpeed = w.gs.currentSpeed,
                   !.gs.currentSpeed = Scale(w.gs.currentSpeed, NEAR_MISS_SLOWMO_FACTOR),
                   !.spectacle.slowMoTimer = NEAR_MISS_SLOWMO_DURATION]
    ELSE w

\* SpectacleSystem.update(delta, playerPos, envelopes)
SpectacleUpdate(w, delta) ==
    LET sp == w.spectacle
        w1 == [w EXCEPT !.spectacle.hasLastPlayerPos = TRUE,
                        !.spectacle.flashTimer = IF sp.flashTimer <= 0 THEN sp.flashTimer
                                                 ELSE sp.flashTimer - delta,
                        !.spectacle.shakeTimer = IF sp.shakeTimer <= 0 THEN sp.shakeTimer
                                                 ELSE sp.shakeTimer - delta]
    IN
    IF w1.spectacle.slowMoTimer > 0
    THEN LET timer == w1.spectacle.slowMoTimer - delta IN
         IF timer <= 0
         THEN [w1 EXCEPT !.spectacle.slowMoTimer = timer,
                         !.gs.currentSpeed = w1.spectacle.slowMoOriginalSpeed]
         ELSE [w1 EXCEPT !.spectacle.slowMoTimer = timer]
    ELSE w1

\* eventBus.emit(name, data) inside the game: the event is recorded and the
\* subscribers that write the game's state run before emit returns
Emit(w, name, x, z) ==
    LET combo == IF name \in ComboEvents THEN w.gs.combo ELSE 0
        score == IF name \in ScoreEvents THEN w.gs.score ELSE 0
        w1 == [w EXCEPT !.events = Append(w.events,
                                          [Ev(name, x, z, combo) EXCEPT !.score = score])]
    IN
    CASE name = "spectacle:entrance" -> OnEntrance(w1)
      [] name = "panic:collected" -> OnPanicCollected(w1)
      [] name = "spectacle:combo" -> OnCombo(w1)
      [] name = "spectacle:streak" -> OnStreak(w1)
      [] name = "spectacle:near_miss" -> OnNearMiss(w1)
      [] name = "player:hit" -> OnPlayerHit(w1)
      [] name = "house:hit" -> OnHouseHit(w1)
      [] OTHER -> w1

(***************************************************************************)
(* Player (gameplay/Player.js)                                             *)
(***************************************************************************)
\* new Player(scene): the model is still loading
PlayerNew ==
    [exists |-> TRUE, ready |-> FALSE, x |-> 0, z |-> 0,
     throwCooldown |-> 0, invincibleTimer |-> 0, envelopes |-> <<>>]

\* Game.player before startGame(): null
NoPlayer == [PlayerNew EXCEPT !.exists = FALSE]

NoTarget == [found |-> FALSE, x |-> 0, z |-> 0]

\* a throw that does not look at the cooldown
ThrowEnvelopeNoCooldown(w, target) ==
    IF w.gs.gameOver THEN w
    ELSE LET p == w.player
             dir == IF target.found THEN Normalize(target.x - p.x, target.z - p.z)
                    ELSE [x |-> 0, z |-> -1000]
             w1 == [w EXCEPT !.player.throwCooldown = COOLDOWN,
                             !.gs.totalThrown = w.gs.totalThrown + 1,
                             !.player.envelopes = Append(p.envelopes, EnvelopeNew(p.x, p.z, dir))]
         IN Emit(Emit(w1, "envelope:thrown", p.x, p.z), "spectacle:action", 0, 0)

\* throwEnvelope(targetPos)
ThrowEnvelope(w, target) ==
    IF w.player.throwCooldown > 0 THEN w
    ELSE IF w.gs.gameOver THEN w
    ELSE LET p == w.player
             dir == IF target.found THEN Normalize(target.x - p.x, target.z - p.z)
                    ELSE [x |-> 0, z |-> -1000]
             w1 == [w EXCEPT !.player.throwCooldown = COOLDOWN,
                             !.gs.totalThrown = w.gs.totalThrown + 1,
                             !.player.envelopes = Append(p.envelopes, EnvelopeNew(p.x, p.z, dir))]
         IN Emit(Emit(w1, "envelope:thrown", p.x, p.z), "spectacle:action", 0, 0)

\* takeDamage that also leaves the started state when the player dies
TakeDamageStops(w) ==
    IF w.player.invincibleTimer > 0 THEN w
    ELSE LET r == LoseLife(w.gs)
             w1 == [w EXCEPT !.gs = r.g,
                             !.player.invincibleTimer = INVINCIBILITY_DURATION]
             w2 == Emit(Emit(w1, "player:hit", 0, 0), "lives:changed", 0, 0)
         IN IF r.ret
            THEN Emit([Emit(w2, "player:died", 0, 0)
                          EXCEPT !.gs.gameOver = TRUE, !.gs.started = FALSE],
                      "game:over", 0, 0)
            ELSE w2

\* takeDamage that does not start the invincibility timer
TakeDamageNoWindow(w) ==
    IF w.player.invincibleTimer > 0 THEN w
    ELSE LET r == LoseLife(w.gs)
             w1 == [w EXCEPT !.gs = r.g]
             w2 == Emit(Emit(w1, "player:hit", 0, 0), "lives:changed", 0, 0)
         IN IF r.ret
            THEN Emit([Emit(w2, "player:died", 0, 0) EXCEPT !.gs.gameOver = TRUE],
                      "game:over", 0, 0)
            ELSE w2

\* takeDamage that never ends the game
TakeDamageSurvives(w) ==
    IF w.player.invincibleTimer > 0 THEN w
    ELSE LET r == LoseLife(w.gs)
             w1 == [w EXCEPT !.gs = r.g,
                             !.player.invincibleTimer = INVINCIBILITY_DURATION]
         IN Emit(Emit(w1, "player:hit", 0, 0), "lives:changed", 0, 0)

\* takeDamage that publishes GAME_OVER and leaves the session running
TakeDamageKeepsPlaying(w) ==
    IF w.player.invincibleTimer > 0 THEN w
    ELSE LET r == LoseLife(w.gs)
             w1 == [w EXCEPT !.gs = r.g,
                             !.player.invincibleTimer = INVINCIBILITY_DURATION]
             w2 == Emit(Emit(w1, "player:hit", 0, 0), "lives:changed", 0, 0)
         IN IF r.ret
            THEN Emit(Emit(w2, "player:died", 0, 0), "game:over", 0, 0)
            ELSE w2

\* takeDamage()
TakeDamage(w) ==
    IF w.player.invincibleTimer > 0 THEN w
    ELSE LET r == LoseLife(w.gs)
             w1 == [w EXCEPT !.gs = r.g,
                             !.player.invincibleTimer = INVINCIBILITY_DURATION]
             w2 == Emit(Emit(w1, "player:hit", 0, 0), "lives:changed", 0, 0)
         IN IF r.ret
            THEN Emit([Emit(w2, "player:died", 0, 0) EXCEPT !.gs.gameOver = TRUE],
                      "game:over", 0, 0)
            ELSE w2

\* an update whose speed increase is not clamped
PlayerUpdateUncapped(w, delta, ix) ==
    IF ~w.player.ready THEN w
    ELSE LET p == w.player
             x == IF ix # 0
                  THEN Max(LANE_MIN, Min(LANE_MAX, p.x + ix * Scale(LANE_SPEED, delta)))
                  ELSE p.x
             moved == [i \in 1 .. Len(p.envelopes) |-> EnvelopeUpdate(p.envelopes[i], delta)]
             speed == IF w.gs.currentSpeed < MAX_SPEED
                      THEN w.gs.currentSpeed + Scale(SPEED_INCREASE_RATE, delta)
                      ELSE w.gs.currentSpeed
             timer == UpdateComboTimer([w.gs EXCEPT !.currentSpeed = speed], delta)
             w1 == [w EXCEPT
                      !.player.throwCooldown = IF p.throwCooldown > 0
                                               THEN p.throwCooldown - delta
                                               ELSE p.throwCooldown,
                      !.player.z = p.z - Scale(w.gs.currentSpeed, delta),
                      !.player.x = x,
                      !.player.invincibleTimer = IF p.invincibleTimer > 0
                                                 THEN p.invincibleTimer - delta
                                                 ELSE p.invincibleTimer,
                      !.player.envelopes = SelectSeq(moved, LAMBDA e : e.alive),
                      !.gs = timer.g]
         IN IF timer.ret THEN Emit(w1, "combo:changed", 0, 0) ELSE w1

\* update(delta, input): ix is -1, 0 or 1 for the left/right keys
PlayerUpdate(w, delta, ix) ==
    IF ~w.player.ready THEN w
    ELSE LET p == w.player
             x == IF ix # 0
                  THEN Max(LANE_MIN, Min(LANE_MAX, p.x + ix * Scale(LANE_SPEED, delta)))
                  ELSE p.x
             moved == [i \in 1 .. Len(p.envelopes) |-> EnvelopeUpdate(p.envelopes[i], delta)]
             speed == IF w.gs.currentSpeed < MAX_SPEED
                      THEN Min(MAX_SPEED, w.gs.currentSpeed + Scale(SPEED_INCREASE_RATE, delta))
                      ELSE w.gs.currentSpeed
             timer == UpdateComboTimer([w.gs EXCEPT !.currentSpeed = speed], delta)
             w1 == [w EXCEPT
                      !.player.throwCooldown = IF p.throwCooldown > 0
                                               THEN p.throwCooldown - delta
                                               ELSE p.throwCooldown,
                      !.player.z = p.z - Scale(w.gs.currentSpeed, delta),
                      !.player.x = x,
                      !.player.invincibleTimer = IF p.invincibleTimer > 0
                                                 THEN p.invincibleTimer - delta
                                                 ELSE p.invincibleTimer,
                      !.player.envelopes = SelectSeq(moved, LAMBDA e : e.alive),
                      !.gs = timer.g]
         IN IF timer.ret THEN Emit(w1, "combo:changed", 0, 0) ELSE w1

(***************************************************************************)
(* Game (core/Game.js)                                                     *)
(***************************************************************************)
\* house i comes before house j in _findThrowTarget's pick: the nearest by
\* distance, and among equals the first of the array sorted by |dz|
Nearer(st, px, pz, i, j) ==
    LET di == Dist2(st.houses[i].x - px, st.houses[i].z - pz)
        dj == Dist2(st.houses[j].x - px, st.houses[j].z - pz)
        zi == Abs(st.houses[i].z - pz)
        zj == Abs(st.houses[j].z - pz)
    IN \/ di < dj
       \/ di = dj /\ zi < zj
       \/ di = dj /\ zi = zj /\ i <= j

\* a pick that takes the first house of the array sorted by |dz|: the house
\* of the nearest row
FindThrowTargetNearestRow(st, px, pz) ==
    LET ahead == {i \in HousesInRange(st, pz, TARGET_RANGE) : st.houses[i].z < pz} IN
    IF ahead = {} THEN NoTarget
    ELSE LET best == CHOOSE i \in ahead : \A j \in ahead :
                        \/ Abs(st.houses[i].z - pz) < Abs(st.houses[j].z - pz)
                        \/ Abs(st.houses[i].z - pz) = Abs(st.houses[j].z - pz) /\ i <= j
         IN [found |-> TRUE, x |-> st.houses[best].x, z |-> st.houses[best].z]

\* _findThrowTarget(playerPos)
FindThrowTarget(st, px, pz) ==
    LET ahead == {i \in HousesInRange(st, pz, TARGET_RANGE) : st.houses[i].z < pz} IN
    IF ahead = {} THEN NoTarget
    ELSE LET best == CHOOSE i \in ahead : \A j \in ahead : Nearer(st, px, pz, i, j) IN
         [found |-> TRUE, x |-> st.houses[best].x, z |-> st.houses[best].z]

\* the run directions a new homeowner's random draws may give (before the
\* sign that points it away from its house)
RunDirs == {[x |-> 1000, z |-> 0], [x |-> 600, z |-> -800]}

\* a spawn that sends two homeowners out of the house
SpawnHomeownerPair(w, h, dir) ==
    LET hw == HomeownerNew(h, dir) IN
    Emit(Emit([w EXCEPT !.homeowners = w.homeowners \o <<hw, hw>>],
              "homeowner:spawned", h.x, h.z),
         "homeowner:spawned", h.x, h.z)

\* _spawnHomeowner(house)
SpawnHomeowner(w, h, dir) ==
    Emit([w EXCEPT !.homeowners = Append(w.homeowners, HomeownerNew(h, dir))],
         "homeowner:spawned", h.x, h.z)

\* a hit that awards the score before it increments the combo
RegisterHitScoreFirst(w, ei, hi, dir) ==
    LET h == w.streetGen.houses[hi]
        w1 == [w EXCEPT !.streetGen.houses[hi] = HouseHit(h),
                        !.player.envelopes[ei].alive = FALSE,
                        !.gs = AddScore([w.gs EXCEPT !.housesHit = w.gs.housesHit + 1], 1).g]
        w2 == Emit([w1 EXCEPT !.gs = IncrementCombo(w1.gs)], "combo:changed", 0, 0)
        w3 == Emit(w2, "score:changed", 0, 0)
        w4 == Emit(Emit(w3, "house:hit", h.x, h.z), "spectacle:hit", 0, 0)
        w5 == IF w4.gs.combo >= 3 THEN Emit(w4, "spectacle:combo", 0, 0) ELSE w4
        w6 == IF w5.gs.combo >= 5 THEN Emit(w5, "spectacle:streak", 0, 0) ELSE w5
    IN SpawnHomeowner(w6, h, dir)

\* a hit that leaves the envelope alive
RegisterHitKeepsEnvelope(w, ei, hi, dir) ==
    LET h == w.streetGen.houses[hi]
        w1 == [w EXCEPT !.streetGen.houses[hi] = HouseHit(h),
                        !.gs = IncrementCombo([w.gs EXCEPT !.housesHit = w.gs.housesHit + 1])]
        w2 == Emit(w1, "combo:changed", 0, 0)
        w3 == Emit([w2 EXCEPT !.gs = AddScore(w2.gs, 1).g], "score:changed", 0, 0)
        w4 == Emit(Emit(w3, "house:hit", h.x, h.z), "spectacle:hit", 0, 0)
        w5 == IF w4.gs.combo >= 3 THEN Emit(w4, "spectacle:combo", 0, 0) ELSE w4
        w6 == IF w5.gs.combo >= 5 THEN Emit(w5, "spectacle:streak", 0, 0) ELSE w5
    IN SpawnHomeowner(w6, h, dir)

\* the body of `if (envelope.checkHouse(house)) { ... }`
RegisterHit(w, ei, hi, dir) ==
    LET h == w.streetGen.houses[hi]
        w1 == [w EXCEPT !.streetGen.houses[hi] = HouseHit(h),
                        !.player.envelopes[ei].alive = FALSE,
                        !.gs = IncrementCombo([w.gs EXCEPT !.housesHit = w.gs.housesHit + 1])]
        w2 == Emit(w1, "combo:changed", 0, 0)
        w3 == Emit([w2 EXCEPT !.gs = AddScore(w2.gs, 1).g], "score:changed", 0, 0)
        w4 == Emit(Emit(w3, "house:hit", h.x, h.z), "spectacle:hit", 0, 0)
        w5 == IF w4.gs.combo >= 3 THEN Emit(w4, "spectacle:combo", 0, 0) ELSE w4
        w6 == IF w5.gs.combo >= 5 THEN Emit(w5, "spectacle:streak", 0, 0) ELSE w5
    IN SpawnHomeowner(w6, h, dir)

\* the inner loop: the first nearby house, not hit, the envelope collides
\* with (0 when there is none)
FirstHouseHit(w, e, nearby) ==
    LET hits == {hi \in nearby : CheckHouse(e, w.streetGen.houses[hi])} IN
    IF hits = {} THEN 0 ELSE CHOOSE hi \in hits : \A hj \in hits : hi <= hj

RECURSIVE EnvelopeHitsFrom(_, _, _, _)
EnvelopeHitsFrom(w, ei, nearby, dir) ==
    IF ei > Len(w.player.envelopes) THEN w
    ELSE LET hi == FirstHouseHit(w, w.player.envelopes[ei], nearby) IN
         EnvelopeHitsFrom(IF hi = 0 THEN w ELSE RegisterHit(w, ei, hi, dir),
                          ei + 1, nearby, dir)

\* _checkEnvelopeHits()
CheckEnvelopeHits(w, dir) ==
    EnvelopeHitsFrom(w, 1, HousesInRange(w.streetGen, w.player.z, 50 * UNIT), dir)

\* dist < 1.5 && dist > 0.7
NearMiss(a, px, pz) ==
    /\ Within(a.x - px, a.z - pz, 1500)
    /\ Dist2(a.x - px, a.z - pz) > 700 * 700

RECURSIVE NearMissesFrom(_, _, _)
NearMissesFrom(w, i, nearby) ==
    IF i > Len(w.streetGen.agents) THEN w
    ELSE LET a == w.streetGen.agents[i] IN
         NearMissesFrom(IF /\ i \in nearby
                           /\ ~a.hasCollided
                           /\ a.alive
                           /\ NearMiss(a, w.player.x, w.player.z)
                        THEN Emit(w, "spectacle:near_miss", 0, 0)
                        ELSE w,
                        i + 1, nearby)

\* _checkAgentCollisions()
CheckAgentCollisions(w) ==
    IF w.player.invincibleTimer > 0 THEN w
    ELSE LET nearby == AgentsInRange(w.streetGen, w.player.z, 5 * UNIT)
             hits == {i \in nearby :
                         AgentCheckPlayer(w.streetGen.agents[i], w.player.x, w.player.z)}
             w1 == IF hits = {} THEN w
                   ELSE LET i == CHOOSE i \in hits : \A j \in hits : i <= j
                            a == w.streetGen.agents[i]
                            d == TakeDamage([w EXCEPT !.streetGen.agents[i].hasCollided = TRUE])
                            c == Emit(d, "agent:collision", a.x, a.z)
                        IN Emit([c EXCEPT !.gs = ResetCombo(c.gs)], "combo:changed", 0, 0)
         IN NearMissesFrom(w1, 1, nearby)

RECURSIVE PanicCollectionFrom(_, _)
PanicCollectionFrom(w, i) ==
    IF i > Len(w.panicPoints) THEN w
    ELSE LET pp == w.panicPoints[i] IN
         PanicCollectionFrom(
            IF PanicPointCheckPlayer(pp, w.player.x, w.player.z) /\ ~pp.collected
            THEN Emit(Emit([w EXCEPT !.panicPoints[i] = PanicPointCollect(pp),
                                     !.gs = AddScore(w.gs, 1).g],
                           "panic:collected", 0, 0),
                      "score:changed", 0, 0)
            ELSE w,
            i + 1)

\* _checkPanicCollection()
CheckPanicCollection(w) == PanicCollectionFrom(w, 1)

\* a loop that disposes of an expired homeowner before it looks at its drops
RECURSIVE UpdateHomeownersDisposeFirst(_, _, _)
UpdateHomeownersDisposeFirst(w, i, delta) ==
    IF i < 1 THEN w
    ELSE LET u == HomeownerUpdate(w.homeowners[i], delta)
             c == ConsumeDrops(u)
             pps == IF ~u.alive THEN w.panicPoints
                    ELSE w.panicPoints
                         \o [k \in 1 .. Len(c.drops) |-> PanicPointNew(c.drops[k].x, c.drops[k].z)]
             hws == IF u.alive THEN [w.homeowners EXCEPT ![i] = c.hw]
                    ELSE SubSeq(w.homeowners, 1, i - 1)
                         \o SubSeq(w.homeowners, i + 1, Len(w.homeowners))
         IN UpdateHomeownersDisposeFirst([w EXCEPT !.homeowners = hws, !.panicPoints = pps],
                                         i - 1, delta)

\* _updateHomeowners(delta): from the last homeowner to the first
RECURSIVE UpdateHomeownersFrom(_, _, _)
UpdateHomeownersFrom(w, i, delta) ==
    IF i < 1 THEN w
    ELSE LET c == ConsumeDrops(HomeownerUpdate(w.homeowners[i], delta))
             hw == c.hw
             pps == w.panicPoints
                    \o [k \in 1 .. Len(c.drops) |-> PanicPointNew(c.drops[k].x, c.drops[k].z)]
             hws == IF hw.alive THEN [w.homeowners EXCEPT ![i] = hw]
                    ELSE SubSeq(w.homeowners, 1, i - 1)
                         \o SubSeq(w.homeowners, i + 1, Len(w.homeowners))
         IN UpdateHomeownersFrom([w EXCEPT !.homeowners = hws, !.panicPoints = pps],
                                 i - 1, delta)

UpdateHomeowners(w, delta) == UpdateHomeownersFrom(w, Len(w.homeowners), delta)

\* _updatePanicPoints(delta)
UpdatePanicPoints(w, delta) ==
    [w EXCEPT !.panicPoints =
        SelectSeq([i \in 1 .. Len(w.panicPoints) |-> PanicPointUpdate(w.panicPoints[i], delta)],
                  LAMBDA pp : pp.alive)]

\* _clearEntities()
ClearEntities(w) == [w EXCEPT !.homeowners = <<>>, !.panicPoints = <<>>]

\* startGame(); `seed` fixes the draws of the street laid out for the session
StartGame(w, seed) ==
    LET w1 == ClearEntities([w EXCEPT !.gs = [Reset(w.gs, "null") EXCEPT !.started = TRUE]])
        st == IF w1.streetGen.exists THEN StreetGeneratorReset(w1.streetGen, seed)
              ELSE StreetGeneratorNew(seed)
    IN Emit([w1 EXCEPT !.streetGen = st, !.player = PlayerNew],
            "spectacle:entrance", 0, 0)

\* restart()
Restart(w, seed) ==
    LET w1 == ClearEntities([w EXCEPT !.player = NoPlayer]) IN
    StartGame([w1 EXCEPT !.spectacle = SpectacleReset(w1.spectacle)], seed)

\* a frame that updates the combo timer after its collision checks
FrameTimerLast(w, delta, throwPressed, ix, laneX, jitter, dir) ==
    LET playerZ == w.player.z
        w1 == IF throwPressed
              THEN ThrowEnvelope(w, FindThrowTarget(w.streetGen, w.player.x, w.player.z))
              ELSE w
        w2 == [PlayerUpdate(w1, delta, ix)
                  EXCEPT !.gs.combo = w1.gs.combo, !.gs.comboTimer = w1.gs.comboTimer,
                         !.events = w1.events]
        w3 == [w2 EXCEPT !.streetGen =
                  StreetGeneratorUpdate(w2.streetGen, delta, playerZ,
                                        w2.gs.currentSpeed, laneX, jitter)]
        w4 == CheckEnvelopeHits(w3, dir)
        w5 == CheckAgentCollisions(w4)
        w6 == CheckPanicCollection(w5)
        w7 == UpdateHomeowners(w6, delta)
        w8 == UpdatePanicPoints(w7, delta)
        timer == UpdateComboTimer(w8.gs, delta)
        w9 == IF ~w8.player.ready THEN w8
              ELSE IF timer.ret THEN Emit([w8 EXCEPT !.gs = timer.g], "combo:changed", 0, 0)
              ELSE [w8 EXCEPT !.gs = timer.g]
    IN SpectacleUpdate(w9, delta)

\* the body of animate() while a session is being played
Frame(w, delta, throwPressed, ix, laneX, jitter, dir) ==
    LET playerZ == w.player.z
        w1 == IF throwPressed
              THEN ThrowEnvelope(w, FindThrowTarget(w.streetGen, w.player.x, w.player.z))
              ELSE w
        w2 == PlayerUpdate(w1, delta, ix)
        w3 == [w2 EXCEPT !.streetGen =
                  StreetGeneratorUpdate(w2.streetGen, delta, playerZ,
                                        w2.gs.currentSpeed, laneX, jitter)]
        w4 == CheckEnvelopeHits(w3, dir)
        w5 == CheckAgentCollisions(w4)
        w6 == CheckPanicCollection(w5)
        w7 == UpdateHomeowners(w6, delta)
        w8 == UpdatePanicPoints(w7, delta)
    IN SpectacleUpdate(w8, delta)

(***************************************************************************)
(* The game driven by its environment: the render loop, the model loader,  *)
(* the keys, the restart button and the random draws                       *)
(***************************************************************************)
MaxRun == 110        \* a session without throws is followed this many units
MaxThrowRun == 8     \* a session with throws is followed this many units
MaxThrown == 2       \* throw presses followed per session
MaxRestarts == 1     \* restarts followed
MaxLoadFrames == 1   \* frames rendered while the player model is loading
MaxUpdates == 5      \* update() calls made by a caller of the street generator

\* (Math.random() - 0.5) * 0.5 for the next spawn interval, in thousandths
Jitters == {0}

\* new InputSystem(): no key held, no throw latched. `space` is keys['Space'].
InputSystemNew == [space |-> FALSE, throwJustPressed |-> FALSE, throwConsumed |-> FALSE]

\* the keydown listener for Space: latches a throw unless the press was
\* already counted (auto-repeat keydowns of a held key)
KeyDownSpace(inp) ==
    IF ~inp.throwConsumed
    THEN [inp EXCEPT !.space = TRUE, !.throwJustPressed = TRUE, !.throwConsumed = TRUE]
    ELSE [inp EXCEPT !.space = TRUE]

\* the keyup listener for Space
KeyUpSpace(inp) == [inp EXCEPT !.space = FALSE, !.throwConsumed = FALSE]

\* get throwPressed: the value read and the input system after the read
ThrowPressed(inp) ==
    [pressed |-> inp.throwJustPressed, input |-> [inp EXCEPT !.throwJustPressed = FALSE]]

\* `updates` and `playerZ` follow a caller that drives the street generator
\* itself: the update() calls it has made and the playerZ it last handed over.
\* `sinceThrow` is the simulated time since an envelope was last spawned,
\* counted up to COOLDOWN (and COOLDOWN when none was spawned yet).
\* `delta` is the delta of the last update call (MAX_DELTA in every frame).
\* `input` is the InputSystem the constructor creates; `reads` counts the
\* times throwPressed read true since the Space key last went down from up,
\* and `pressedOver` tells whether the latched press was made while the game
\* was over.
NoGame == [constructed |-> FALSE, last |-> "none", restarts |-> 0, loadFrames |-> 0,
           updates |-> 0, playerZ |-> 0, sinceThrow |-> COOLDOWN, delta |-> MAX_DELTA,
           input |-> InputSystemNew, reads |-> 0, pressedOver |-> FALSE]

World ==
    [gs |-> gs, player |-> player, streetGen |-> streetGen,
     homeowners |-> homeowners, panicPoints |-> panicPoints,
     spectacle |-> spectacle, events |-> <<>>]

SetWorld(w) ==
    /\ gs' = w.gs
    /\ player' = w.player
    /\ streetGen' = w.streetGen
    /\ homeowners' = w.homeowners
    /\ panicPoints' = w.panicPoints
    /\ spectacle' = w.spectacle
    /\ events' = w.events

\* new Game(): the constructor ends with startGame()
GameNew ==
    /\ ~game.constructed
    /\ \E seed \in Seeds : SetWorld(StartGame([World EXCEPT !.spectacle = SpectacleNew], seed))
    /\ game' = [game EXCEPT !.constructed = TRUE, !.last = "new"]
    /\ UNCHANGED <<storage, busVars, op>>

\* Player._loadModel() completes (or fails over to the box): ready = true
PlayerReady ==
    /\ player.exists
    /\ ~player.ready
    /\ player' = [player EXCEPT !.ready = TRUE]
    /\ events' = <<>>
    /\ game' = [game EXCEPT !.last = "ready"]
    /\ UNCHANGED <<storage, busVars, stateVars, streetGen, homeowners, panicPoints, spectacle>>

\* a render loop that runs the frame whether the game is over or not
AnimateAlways(throwKeys, moves, lanes, run) ==
    /\ game.constructed
    /\ IF player.exists
       THEN /\ player.z > -run * UNIT
            /\ player.ready \/ game.loadFrames < MaxLoadFrames
            /\ \E throwPressed \in throwKeys, ix \in moves, laneX \in lanes,
                  jitter \in Jitters, dir \in RunDirs :
                  /\ throwPressed => gs.totalThrown < MaxThrown
                  /\ SetWorld(Frame(World, MAX_DELTA, throwPressed, ix, laneX, jitter, dir))
            /\ game' = [game EXCEPT !.last = "animate",
                                    !.input = ThrowPressed(@).input,
                                    !.reads = IF ThrowPressed(game.input).pressed
                                              THEN @ + 1 ELSE @,
                                    !.loadFrames = IF player.ready THEN @ ELSE @ + 1,
                                    !.sinceThrow = IF gs'.totalThrown > gs.totalThrown
                                                   THEN MAX_DELTA
                                                   ELSE Min(COOLDOWN, @ + MAX_DELTA)]
       ELSE /\ SetWorld(World)
            /\ game' = [game EXCEPT !.last = "animate"]
    /\ UNCHANGED <<storage, busVars, op>>

\* animate(): one frame of the render loop, MAX_DELTA after the one before.
\* The environment gives the throw key (from throwKeys), the left/right keys
\* (from moves) and the lane of an agent spawned in the frame (from lanes);
\* the session is followed for `run` units of road.
Animate(throwKeys, moves, lanes, run) ==
    /\ game.constructed
    /\ IF gs.started /\ ~gs.gameOver /\ player.exists
       THEN /\ player.z > -run * UNIT
            /\ player.ready \/ game.loadFrames < MaxLoadFrames
            /\ \E throwPressed \in throwKeys, ix \in moves, laneX \in lanes,
                  jitter \in Jitters, dir \in RunDirs :
                  /\ throwPressed => gs.totalThrown < MaxThrown
                  /\ SetWorld(Frame(World, MAX_DELTA, throwPressed, ix, laneX, jitter, dir))
            /\ game' = [game EXCEPT !.last = "animate",
                                    !.input = ThrowPressed(@).input,
                                    !.reads = IF ThrowPressed(game.input).pressed
                                              THEN @ + 1 ELSE @,
                                    !.loadFrames = IF player.ready THEN @ ELSE @ + 1,
                                    !.sinceThrow = IF gs'.totalThrown > gs.totalThrown
                                                   THEN MAX_DELTA
                                                   ELSE Min(COOLDOWN, @ + MAX_DELTA)]
       ELSE /\ SetWorld(World)
            /\ game' = [game EXCEPT !.last = "animate"]
    /\ UNCHANGED <<storage, busVars, op>>

\* the restart button: eventBus.emit(GAME_RESTART) -> Game.restart()
RestartClicked ==
    /\ game.constructed
    /\ game.restarts < MaxRestarts
    /\ \E seed \in Seeds :
          SetWorld(Restart(Emit(World, "game:restart", 0, 0), seed))
    /\ game' = [game EXCEPT !.last = "restart", !.restarts = @ + 1, !.loadFrames = 0]
    /\ UNCHANGED <<storage, busVars, op>>

(***************************************************************************)
(* Specifications                                                          *)
(***************************************************************************)
\* the state after the modules are loaded: `new EventBus()`, `new GameState()`
Init ==
    /\ listeners = EventBusNew
    /\ nextReg = 0
    /\ lastEmit = NoEmit
    /\ \E stored \in StartValues : storage = stored /\ gs = GameStateNew(stored)
    /\ op = NoOp
    /\ game = NoGame
    /\ player = NoPlayer
    /\ streetGen = NoStreetGenerator
    /\ homeowners = <<>>
    /\ panicPoints = <<>>
    /\ spectacle = SpectacleNew
    /\ events = <<>>

\* the event bus driven by arbitrary subscribers and publishers
NextBus == BusOn \/ BusOff \/ BusEmit \/ BusRemoveAll
SpecBus == Init /\ [][NextBus]_vars

\* the game state driven by arbitrary callers
NextState ==
    \/ CallReset
    \/ CallAddScore
    \/ CallIncrementCombo
    \/ CallResetCombo
    \/ CallUpdateComboTimer
    \/ CallLoseLife
SpecState == Init /\ [][NextState]_vars

\* a session run to its end: the player keeps to the middle of the street and
\* throws nothing, agents come down the middle or one unit beside it, and the
\* restart button is pressed on the game-over screen
RunLanes == {0, 1000}
AnimateRun == Animate({FALSE}, {0}, RunLanes, MaxRun)
RestartRun == gs.gameOver /\ RestartClicked
NextRun == GameNew \/ PlayerReady \/ AnimateRun \/ RestartRun
SpecRun == Init /\ [][NextRun]_vars

\* the first stretch of a session in which the player throws, restarted at
\* any moment
AnimateThrow == Animate(BOOLEAN, {0}, {0}, MaxThrowRun)
NextThrow == GameNew \/ PlayerReady \/ AnimateThrow \/ RestartClicked
SpecThrow == Init /\ [][NextThrow]_vars

\* late in a session: the speed has reached its cap, the street is sparse
\* (seed 3) and the player runs along its left edge, free to steer right and
\* to throw.  Positions are counted from the start of the street's pattern.
MaxHitsRun == 36     \* the stretch is followed down to this many units

InitHits ==
    /\ listeners = EventBusNew
    /\ nextReg = 0
    /\ lastEmit = NoEmit
    /\ op = NoOp
    /\ storage = "null"
    /\ game = [NoGame EXCEPT !.constructed = TRUE, !.last = "animate"]
    /\ gs = [Reset(GameStateNew("null"), "null")
                EXCEPT !.started = TRUE, !.currentSpeed = MAX_SPEED]
    /\ player = [PlayerNew EXCEPT !.ready = TRUE, !.x = LANE_MIN, !.z = -15 * UNIT]
    /\ streetGen = StreetGeneratorNew(3)
    /\ homeowners = <<>>
    /\ panicPoints = <<>>
    /\ spectacle = [SpectacleNew EXCEPT !.hasLastPlayerPos = TRUE]
    /\ events = <<>>

AnimateHits == Animate(BOOLEAN, {0, 1}, {0}, MaxHitsRun)
SpecHits == InitHits /\ [][AnimateHits]_vars

\* later in a session, around an agent that walks into the player: the speed
\* has grown to 20 units per second and the spawn intervals come out short
\* (jitter -0.25).  The state is computed by running the frames themselves:
\* from DamageBase, WarmUpFrames frames in which the player keeps to the
\* middle, a first agent passes three units beside it and a second one comes
\* down the middle.  Positions are counted from the start of the street's
\* pattern.
MaxDamageRun == 105  \* the stretch is followed down to this many units
WarmUpFrames == 45   \* frames run to compute the state the stretch starts in

DamageBase ==
    [gs |-> [Reset(GameStateNew("null"), "null")
                EXCEPT !.started = TRUE, !.currentSpeed = 20 * UNIT],
     player |-> [PlayerNew EXCEPT !.ready = TRUE],
     streetGen |-> [StreetGeneratorNew(2) EXCEPT !.agentTimer = MAX_DELTA],
     homeowners |-> <<>>,
     panicPoints |-> <<>>,
     spectacle |-> [SpectacleNew EXCEPT !.hasLastPlayerPos = TRUE],
     events |-> <<>>]

\* the states n frames after those of ws
RECURSIVE FramesFrom(_, _)
FramesFrom(ws, n) ==
    IF n = 0 THEN ws
    ELSE FramesFrom({Frame([w EXCEPT !.events = <<>>], MAX_DELTA, FALSE, 0,
                           IF w.streetGen.agents = <<>> THEN 3 * UNIT ELSE 0, -250,
                           [x |-> 1000, z |-> 0]) : w \in ws},
                    n - 1)

InitDamage ==
    /\ listeners = EventBusNew
    /\ nextReg = 0
    /\ lastEmit = NoEmit
    /\ op = NoOp
    /\ storage = "null"
    /\ game = [NoGame EXCEPT !.constructed = TRUE, !.last = "animate"]
    /\ \E w \in FramesFrom({DamageBase}, WarmUpFrames) :
          /\ gs = w.gs
          /\ player = w.player
          /\ streetGen = w.streetGen
          /\ homeowners = w.homeowners
          /\ panicPoints = w.panicPoints
          /\ spectacle = w.spectacle
          /\ events = w.events

\* the player throws until an agent has cost it a life
AnimateDamage ==
    /\ Animate(BOOLEAN, {0}, {0}, MaxDamageRun)
    /\ gs'.totalThrown > gs.totalThrown => gs.lives = LIVES
SpecDamage == InitDamage /\ [][AnimateDamage]_vars

\* a session with collisions, throws and hits, restarted at any moment; the
\* new session is not followed further
AnimateUntilRestart == game.restarts = 0 /\ AnimateDamage
NextRestart == AnimateUntilRestart \/ RestartClicked
SpecRestart == InitDamage /\ [][NextRestart]_vars

\* a session followed until the entities of its first seconds have all gone:
\* the player steers to the left edge and throws once near the start, the
\* homeowner of the house it hits runs for PANIC_DURATION and drops pickups,
\* and the first agent comes down the middle and passes
MaxSweepRun == 70    \* the session is followed this many units
ThrowStretch == 5    \* the throw is made within this many units of the start

AnimateSweep ==
    /\ Animate(BOOLEAN, {-1}, {0}, MaxSweepRun)
    /\ gs'.totalThrown > gs.totalThrown =>
          gs.totalThrown = 0 /\ player.z > -ThrowStretch * UNIT
NextSweep == GameNew \/ PlayerReady \/ AnimateSweep
SpecSweep == Init /\ [][NextSweep]_vars

\* the last life of a session like that of SpecDamage: the player throws, the
\* agent that walks into it ends the game, the restart button of the
\* game-over screen is pressed and the new session is followed for its first
\* ThrowStretch units
LastLifeBase == [DamageBase EXCEPT !.gs.lives = 1]

InitLast ==
    /\ listeners = EventBusNew
    /\ nextReg = 0
    /\ lastEmit = NoEmit
    /\ op = NoOp
    /\ storage = "null"
    /\ game = [NoGame EXCEPT !.constructed = TRUE, !.last = "animate"]
    /\ \E w \in FramesFrom({LastLifeBase}, WarmUpFrames) :
          /\ gs = w.gs
          /\ player = w.player
          /\ streetGen = w.streetGen
          /\ homeowners = w.homeowners
          /\ panicPoints = w.panicPoints
          /\ spectacle = w.spectacle
          /\ events = w.events

AnimateLast ==
    IF game.restarts = 0
    THEN Animate(BOOLEAN, {0}, {0}, MaxDamageRun)
    ELSE Animate(BOOLEAN, {0}, {0}, ThrowStretch)
RestartLast == gs.gameOver /\ RestartClicked
NextLast == AnimateLast \/ RestartLast \/ PlayerReady
SpecLast == InitLast /\ [][NextLast]_vars

\* the page loaded with any stored item, then a short session in which the
\* mute button is pressed at any moment
MaxMuteRun == 1

\* the AUDIO_TOGGLE_MUTE handler of initAudioBridge(); setItem stores the
\* boolean as its string, or throws
MuteToggled(g, item, writeThrows) ==
    LET flipped == [g EXCEPT !.isMuted = ~g.isMuted] IN
    [g |-> flipped,
     item |-> IF writeThrows THEN item
              ELSE IF flipped.isMuted THEN "true" ELSE "false"]

\* the mute button (or the M key): eventBus.emit(AUDIO_TOGGLE_MUTE)
ToggleMute ==
    /\ \E writeThrows \in BOOLEAN :
          LET r == MuteToggled(gs, storage, writeThrows) IN
          /\ gs' = r.g
          /\ storage' = r.item
          /\ game' = [game EXCEPT !.last = IF writeThrows THEN "mute:write_throws"
                                           ELSE "mute"]
    /\ events' = <<Ev("audio:toggle_mute", 0, 0, 0)>>
    /\ UNCHANGED <<busVars, op, player, streetGen, homeowners, panicPoints, spectacle>>

InitMute ==
    /\ listeners = EventBusNew
    /\ nextReg = 0
    /\ lastEmit = NoEmit
    /\ \E stored \in StoredValues : storage = stored /\ gs = GameStateNew(stored)
    /\ op = NoOp
    /\ game = NoGame
    /\ player = NoPlayer
    /\ streetGen = NoStreetGenerator
    /\ homeowners = <<>>
    /\ panicPoints = <<>>
    /\ spectacle = SpectacleNew
    /\ events = <<>>

AnimateMute == Animate({FALSE}, {0}, {0}, MaxMuteRun)
NextMute == ToggleMute \/ GameNew \/ PlayerReady \/ AnimateMute \/ RestartClicked
SpecMute == InitMute /\ [][NextMute]_vars

\* late in a session, as the speed reaches its cap: the speed has grown for
\* GrownFrames frames, the player keeps to the middle and throws nothing, and
\* agents come down the middle or one unit beside it (near misses).  Positions
\* are counted from the start of the street's pattern.
MaxSpeedRun == 75    \* the stretch is followed down to this many units
GrownFrames == {2372, 2410}

InitSpeed ==
    /\ listeners = EventBusNew
    /\ nextReg = 0
    /\ lastEmit = NoEmit
    /\ op = NoOp
    /\ storage = "null"
    /\ game = [NoGame EXCEPT !.constructed = TRUE, !.last = "animate"]
    /\ \E n \in GrownFrames :
          gs = [Reset(GameStateNew("null"), "null")
                   EXCEPT !.started = TRUE,
                          !.currentSpeed = AUTO_SPEED * UNIT
                                           + n * Scale(SPEED_INCREASE_RATE, MAX_DELTA)]
    /\ player = [PlayerNew EXCEPT !.ready = TRUE]
    /\ streetGen = [StreetGeneratorNew(2) EXCEPT !.agentTimer = MAX_DELTA]
    /\ homeowners = <<>>
    /\ panicPoints = <<>>
    /\ spectacle = [SpectacleNew EXCEPT !.hasLastPlayerPos = TRUE]
    /\ events = <<>>

AnimateSpeed == Animate({FALSE}, {0}, RunLanes, MaxSpeedRun)
NextSpeed == AnimateSpeed \/ RestartClicked
SpecSpeed == InitSpeed /\ [][NextSpeed]_vars

\* three seconds after a hit: a session with every row built is started, the
\* player throws in its first frame and hits the nearest house, and
\* ComboWarmUp frames pass without a throw; then the player throws again at any
\* moment, so that the second hit lands before, in or after the frame in which
\* the combo timer runs out
MaxComboRun == 30    \* the session is followed this many units
ComboWarmUp == 50    \* frames run after the first throw

\* the world new Game() leaves once the player's model has loaded
SessionStart(seed) ==
    [StartGame([gs |-> GameStateNew("null"), player |-> NoPlayer,
                streetGen |-> NoStreetGenerator, homeowners |-> <<>>,
                panicPoints |-> <<>>, spectacle |-> SpectacleNew, events |-> <<>>], seed)
        EXCEPT !.player.ready = TRUE, !.events = <<>>]

\* its first frame, the throw key pressed
FirstThrow ==
    Frame(SessionStart(1), MAX_DELTA, TRUE, 0, 0, 0, [x |-> 1000, z |-> 0])

InitCombo ==
    /\ listeners = EventBusNew
    /\ nextReg = 0
    /\ lastEmit = NoEmit
    /\ op = NoOp
    /\ storage = "null"
    /\ game = [NoGame EXCEPT !.constructed = TRUE, !.last = "animate"]
    /\ \E w \in FramesFrom({FirstThrow}, ComboWarmUp) :
          /\ gs = w.gs
          /\ player = w.player
          /\ streetGen = w.streetGen
          /\ homeowners = w.homeowners
          /\ panicPoints = w.panicPoints
          /\ spectacle = w.spectacle
          /\ events = w.events

AnimateCombo == Animate(BOOLEAN, {0}, {0}, MaxComboRun)
SpecCombo == InitCombo /\ [][AnimateCombo]_vars

\* the homeowner pool driven by a caller of its own: homeowners are sent out
\* of houses that were hit and _updateHomeowners is called with any delta,
\* also one long enough for a homeowner to drop and expire in the same call
MaxRunners == 2      \* homeowners sent out
DropDeltas == {MAX_DELTA, DROP_INTERVAL, 2 * DROP_INTERVAL + 4 * MAX_DELTA}
DropHouses == {HouseNew(-HOUSE_OFFSET_X, -2 * UNIT, "left"),
               HouseNew(HOUSE_OFFSET_X, -8 * UNIT, "right")}

\* _spawnHomeowner(house)
DropsSpawn ==
    /\ ~game.constructed
    /\ Len(homeowners) < MaxRunners
    /\ \E h \in DropHouses, dir \in RunDirs :
          /\ \A k \in 1 .. Len(homeowners) : homeowners[k].z # h.z
          /\ SetWorld(SpawnHomeowner(World, h, dir))
    /\ game' = [game EXCEPT !.last = "homeowners:spawn"]
    /\ UNCHANGED <<storage, busVars, op>>

\* _updateHomeowners(delta)
DropsUpdate ==
    /\ ~game.constructed
    /\ game.updates < MaxUpdates
    /\ \E delta \in DropDeltas :
          /\ SetWorld(UpdateHomeowners(World, delta))
          /\ game' = [game EXCEPT !.last = "homeowners:update", !.updates = @ + 1,
                                  !.delta = delta]
    /\ UNCHANGED <<storage, busVars, op>>

NextDrops == DropsSpawn \/ DropsUpdate
SpecDrops == Init /\ [][NextDrops]_vars

\* the first stretch of sessions whose streets make the choice of a target
\* tell: on a street with every row built (seed 1) the player keeps to the
\* middle, the houses of a row equally far from it; on a sparse street
\* (seed 3) it hits the only house in range and throws again; on a street with
\* houses on either side in turn (seed 4) it steers to the left edge, the next
\* row's house then nearer than that of the row it passes
MaxAimRun == 8       \* the session is followed this many units
AimSeeds == {1, 3, 4}

InitAim ==
    /\ listeners = EventBusNew
    /\ nextReg = 0
    /\ lastEmit = NoEmit
    /\ op = NoOp
    /\ storage = "null"
    /\ game = [NoGame EXCEPT !.constructed = TRUE, !.last = "ready"]
    /\ \E seed \in AimSeeds :
          LET w == SessionStart(seed) IN
          /\ gs = w.gs
          /\ player = w.player
          /\ streetGen = w.streetGen
          /\ homeowners = w.homeowners
          /\ panicPoints = w.panicPoints
          /\ spectacle = w.spectacle
          /\ events = w.events

AnimateAim ==
    Animate(BOOLEAN, IF streetGen.seed = 4 THEN {-1} ELSE {0}, {0}, MaxAimRun)
SpecAim == InitAim /\ [][AnimateAim]_vars

\* the last life of a session on a street with every row built, an agent
\* about to be spawned in the lane along the left edge: the player steers to
\* that edge, throws as the agent comes near, and runs into what the
\* homeowner drops as the agent runs into it; the restart button of the
\* game-over screen is pressed.  Positions are counted from the start of the
\* street's pattern.
MaxFatalRun == 40    \* the session is followed this many units
NearStretch == 10    \* the player throws with an agent this many units ahead

FatalBase ==
    [SessionStart(1) EXCEPT !.gs.lives = 1, !.streetGen.agentTimer = MAX_DELTA]

InitFatal ==
    /\ listeners = EventBusNew
    /\ nextReg = 0
    /\ lastEmit = NoEmit
    /\ op = NoOp
    /\ storage = "null"
    /\ game = [NoGame EXCEPT !.constructed = TRUE, !.last = "animate"]
    /\ gs = FatalBase.gs
    /\ player = FatalBase.player
    /\ streetGen = FatalBase.streetGen
    /\ homeowners = FatalBase.homeowners
    /\ panicPoints = FatalBase.panicPoints
    /\ spectacle = FatalBase.spectacle
    /\ events = FatalBase.events

AgentNear ==
    \E k \in 1 .. Len(streetGen.agents) :
       streetGen.agents[k].z - player.z > -NearStretch * UNIT

AnimateFatal ==
    /\ Animate(BOOLEAN, {-1}, {LANE_MIN}, MaxFatalRun)
    /\ gs'.totalThrown > gs.totalThrown => AgentNear
RestartFatal == gs.gameOver /\ RestartClicked
NextFatal == AnimateFatal \/ RestartFatal \/ PlayerReady
SpecFatal == InitFatal /\ [][NextFatal]_vars

\* the last life of SpecLast with the Space key of the keyboard: the key goes
\* down (a press, or an auto-repeat of a held key) and up at any moment, also
\* on the game-over screen, and the frames read the throw from the input
\* system
KeyDown ==
    /\ game.constructed
    /\ game' = [game EXCEPT !.last = "keydown",
                            !.input = KeyDownSpace(@),
                            !.reads = IF game.input.space THEN @ ELSE 0,
                            !.pressedOver = IF game.input.throwConsumed
                                            THEN @ ELSE gs.gameOver]
    /\ events' = <<>>
    /\ UNCHANGED <<storage, busVars, op, stateVars, player, streetGen, homeowners,
                   panicPoints, spectacle>>

KeyUp ==
    /\ game.constructed
    /\ game.input.space
    /\ game' = [game EXCEPT !.last = "keyup", !.input = KeyUpSpace(@)]
    /\ events' = <<>>
    /\ UNCHANGED <<storage, busVars, op, stateVars, player, streetGen, homeowners,
                   panicPoints, spectacle>>

AnimateInput ==
    IF game.restarts = 0
    THEN Animate({ThrowPressed(game.input).pressed}, {0}, {0}, MaxDamageRun)
    ELSE Animate({ThrowPressed(game.input).pressed}, {0}, {0}, ThrowStretch)
RestartInput == gs.gameOver /\ RestartClicked
NextInput == KeyDown \/ KeyUp \/ AnimateInput \/ RestartInput \/ PlayerReady
SpecInput == InitLast /\ [][NextInput]_vars

\* the page load and the sessions after it, with the subscriptions the Game
\* constructor makes on the event bus: the game is constructed, frames go by,
\* and the restart event is published at any moment, any number of times up to
\* MaxSubsRestarts
MaxSubsRun == 1        \* each session is followed this many units
MaxSubsRestarts == 2   \* restarts followed

\* SpectacleSystem._bindEvents(): the topics it subscribes to and its handlers
SpectacleBindings ==
    << <<"spectacle:entrance", "_onEntrance">>,
       <<"spectacle:action", "_onAction">>,
       <<"spectacle:hit", "_onHit">>,
       <<"panic:collected", "_onPanicCollected">>,
       <<"spectacle:combo", "_onCombo">>,
       <<"spectacle:streak", "_onStreak">>,
       <<"spectacle:near_miss", "_onNearMiss">>,
       <<"player:hit", "_onPlayerHit">>,
       <<"combo:changed", "_onComboChanged">>,
       <<"house:hit", "_onHouseHit">> >>

RECURSIVE BindFrom(_, _, _)
BindFrom(ls, i, reg) ==
    IF i > Len(SpectacleBindings) THEN ls
    ELSE BindFrom(On(ls, SpectacleBindings[i][1], SpectacleBindings[i][2], reg + i),
                  i + 1, reg)

BindEvents(ls, reg) == BindFrom(ls, 1, reg)

\* new Menu(): the game-over screen and the lives display
MenuNew(ls, reg) ==
    On(On(ls, "game:over", "showGameOver", reg + 1), "lives:changed", "updateLives", reg + 2)

\* the on() calls of new Game(): new SpectacleSystem, new Menu, and its own
\* restart handler
GameSubscribes(ls, reg) ==
    LET n == Len(SpectacleBindings) IN
    On(MenuNew(BindEvents(ls, reg), reg + n), "game:restart", "restart", reg + n + 3)

GameTopics ==
    {SpectacleBindings[i][1] : i \in 1..Len(SpectacleBindings)}
        \cup {"game:over", "lives:changed", "game:restart"}

\* the bus before any on(): a topic without an array has no listener
GameBusNew == [t \in GameTopics |-> <<>>]

InitSubs ==
    /\ listeners = GameBusNew
    /\ nextReg = 0
    /\ lastEmit = NoEmit
    /\ \E stored \in StartValues : storage = stored /\ gs = GameStateNew(stored)
    /\ op = NoOp
    /\ game = NoGame
    /\ player = NoPlayer
    /\ streetGen = NoStreetGenerator
    /\ homeowners = <<>>
    /\ panicPoints = <<>>
    /\ spectacle = SpectacleNew
    /\ events = <<>>

\* new Game() with its subscriptions
GameNewSubs ==
    /\ ~game.constructed
    /\ listeners' = GameSubscribes(listeners, nextReg)
    /\ nextReg' = nextReg + Len(SpectacleBindings) + 3
    /\ lastEmit' = NoEmit
    /\ \E seed \in Seeds : SetWorld(StartGame([World EXCEPT !.spectacle = SpectacleNew], seed))
    /\ game' = [game EXCEPT !.constructed = TRUE, !.last = "new"]
    /\ UNCHANGED <<storage, op>>

\* a restart that builds the feedback layer anew
RestartBindsAgain ==
    /\ game.constructed
    /\ game.restarts < MaxSubsRestarts
    /\ LET r == EmitResult(listeners, "game:restart") IN
          /\ listeners' = BindEvents(r.ls, nextReg)
          /\ nextReg' = nextReg + Len(SpectacleBindings)
          /\ lastEmit' = [topic |-> "game:restart", snapshot |-> listeners["game:restart"],
                          delivered |-> r.delivered, errors |-> r.errors,
                          returned |-> r.returned]
          /\ \E seed \in Seeds :
                SetWorld(IF r.delivered = <<>> THEN Emit(World, "game:restart", 0, 0)
                         ELSE Restart(Emit(World, "game:restart", 0, 0), seed))
    /\ game' = [game EXCEPT !.last = "restart", !.restarts = @ + 1, !.loadFrames = 0]
    /\ UNCHANGED <<storage, op>>

\* the restart event published on the bus: emit() calls the listeners of
\* 'game:restart', and the Game's handler runs restart()
RestartPublished ==
    /\ game.constructed
    /\ game.restarts < MaxSubsRestarts
    /\ LET r == EmitResult(listeners, "game:restart") IN
          /\ listeners' = r.ls
          /\ nextReg' = nextReg
          /\ lastEmit' = [topic |-> "game:restart", snapshot |-> listeners["game:restart"],
                          delivered |-> r.delivered, errors |-> r.errors,
                          returned |-> r.returned]
          /\ \E seed \in Seeds :
                SetWorld(IF r.delivered = <<>> THEN Emit(World, "game:restart", 0, 0)
                         ELSE Restart(Emit(World, "game:restart", 0, 0), seed))
    /\ game' = [game EXCEPT !.last = "restart", !.restarts = @ + 1, !.loadFrames = 0]
    /\ UNCHANGED <<storage, op>>

AnimateSubs == Animate(BOOLEAN, {0}, {0}, MaxSubsRun)
NextSubs == GameNewSubs \/ AnimateSubs \/ RestartPublished \/ PlayerReady
SpecSubs == InitSubs /\ [][NextSubs]_vars

\* the first stretch of a session in which the player steers to the left edge
\* of the street, throws at the houses it passes and runs into what their
\* homeowners drop
MaxPickupRun == 12   \* the stretch is followed down to this many units

AnimatePickup == Animate(BOOLEAN, {-1}, {0}, MaxPickupRun)
NextPickup == GameNew \/ PlayerReady \/ AnimatePickup
SpecPickup == Init /\ [][NextPickup]_vars

\* the street generator driven by a caller of its own: constructed, then
\* updated with any delta and any playerZ (ahead of the last one, far ahead
\* of it, or behind it) and reset at any moment
StreetDeltas == {MAX_DELTA, SPAWN_INTERVAL}
StreetSteps == {-1000, -7000, 2000}

\* new StreetGenerator(scene)
StreetNew ==
    /\ ~game.constructed
    /\ ~streetGen.exists
    /\ \E seed \in Seeds : streetGen' = StreetGeneratorNew(seed)
    /\ game' = [game EXCEPT !.last = "street:new", !.playerZ = 0]
    /\ UNCHANGED <<storage, busVars, stateVars, player, homeowners, panicPoints, spectacle, events>>

\* streetGen.update(delta, playerZ)
StreetUpdate ==
    /\ streetGen.exists
    /\ game.updates < MaxUpdates
    /\ \E delta \in StreetDeltas, step \in StreetSteps, jitter \in Jitters :
          LET playerZ == game.playerZ + step IN
          /\ streetGen' = StreetGeneratorUpdate(streetGen, delta, playerZ,
                                                gs.currentSpeed, 0, jitter)
          /\ game' = [game EXCEPT !.last = "street:update", !.updates = @ + 1,
                                  !.playerZ = playerZ]
    /\ UNCHANGED <<storage, busVars, stateVars, player, homeowners, panicPoints, spectacle, events>>

\* streetGen.reset(), the caller's player back at the start
StreetReset ==
    /\ streetGen.exists
    /\ game.restarts < MaxRestarts
    /\ \E seed \in Seeds : streetGen' = StreetGeneratorReset(streetGen, seed)
    /\ game' = [game EXCEPT !.last = "street:reset", !.restarts = @ + 1, !.playerZ = 0]
    /\ UNCHANGED <<storage, busVars, stateVars, player, homeowners, panicPoints, spectacle, events>>

NextStreet == StreetNew \/ StreetUpdate \/ StreetReset
SpecStreet == Init /\ [][NextStreet]_vars

(***************************************************************************)
(* Properties of the event bus (checked under SpecBus)                     *)
(***************************************************************************)
Emitted == lastEmit.topic # "none"

\* C1: emit delivers synchronously to every handler subscribed to the topic
\* when emit is called, each exactly once, in the order the handlers were
\* registered with on(), and every delivery is made before emit returns.
C1_EmitSynchronousInOrder ==
    Emitted =>
        /\ lastEmit.returned
        /\ Len(lastEmit.delivered) = Len(lastEmit.snapshot)
        /\ \A i \in 1 .. Len(lastEmit.snapshot) :
              lastEmit.delivered[i] = lastEmit.snapshot[i]
        /\ \A i, j \in 1 .. Len(lastEmit.delivered) :
              i < j => lastEmit.delivered[i].reg < lastEmit.delivered[j].reg

\* an emit to three handlers, the first of which unsubscribed itself meanwhile
C1_Witness ==
    /\ Emitted
    /\ Len(lastEmit.delivered) = 3
    /\ lastEmit.delivered[1].cb = "once"
    /\ Len(listeners[lastEmit.topic]) = 2

\* C2: a handler that throws during emit does not stop the handlers registered
\* after it from being invoked for the same emit, the error is logged, and
\* emit returns normally to its caller.
C2_ThrowIsIsolated ==
    Emitted =>
        /\ lastEmit.returned
        /\ \A i \in 1 .. Len(lastEmit.snapshot) :
              Throws(lastEmit.snapshot[i].cb) =>
                 \A j \in (i + 1) .. Len(lastEmit.snapshot) :
                    \E k \in 1 .. Len(lastEmit.delivered) :
                       lastEmit.delivered[k] = lastEmit.snapshot[j]
        /\ lastEmit.errors =
              Cardinality({i \in 1 .. Len(lastEmit.snapshot) :
                              Throws(lastEmit.snapshot[i].cb)})

\* an emit whose first handler threw and whose later handlers were invoked
C2_Witness ==
    /\ Emitted
    /\ Len(lastEmit.snapshot) = 3
    /\ Throws(lastEmit.snapshot[1].cb)
    /\ ~Throws(lastEmit.snapshot[3].cb)
    /\ lastEmit.delivered[3] = lastEmit.snapshot[3]
    /\ lastEmit.errors = 1

(***************************************************************************)
(* Properties of the game state (checked under SpecState)                  *)
(***************************************************************************)
\* the step is a call of the method `name` (and not a stuttering step)
Called(name) == op'.name = name /\ <<gs, op>> # <<gs', op'>>

\* C3: for every combo c >= 0 and base >= 0, addScore(base) returns
\* base * min(max(c, 1), MULTIPLIER_CAP), adds exactly that to score, and the
\* multiplier applied never exceeds MULTIPLIER_CAP.
C3_AddScoreClamped ==
    [][Called("addScore") =>
          /\ op'.points = op'.arg * Min(Max(gs.combo, 1), MULTIPLIER_CAP)
          /\ gs'.score = gs.score + op'.points
          /\ op'.points <= op'.arg * MULTIPLIER_CAP]_vars

\* addScore(1) with a combo above the cap awarded the cap
C3_Witness ==
    /\ op.name = "addScore"
    /\ op.arg = 1
    /\ gs.combo > MULTIPLIER_CAP
    /\ op.points = MULTIPLIER_CAP

\* C4: in every state reached by any sequence of reset, incrementCombo,
\* resetCombo, updateComboTimer, addScore and loseLife, combo > 0 holds if and
\* only if the combo timer is > 0.
C4_ComboIffTimer == (gs.combo > 0) <=> (gs.comboTimer > 0)

\* a combo whose timer has partly run down
C4_Witness ==
    /\ op.name = "updateComboTimer"
    /\ gs.combo > 1
    /\ gs.comboTimer > 0
    /\ gs.comboTimer < TIMEOUT_MS

\* C5: updateComboTimer returns true exactly on the call in which the timer of
\* a running combo crosses zero, and that call resets combo and timer to 0; it
\* returns false and leaves the state alone while combo = 0, so it returns
\* false on every later call until incrementCombo (the only method that makes
\* combo > 0) is called again; otherwise it takes the delta off the timer.
C5_ExpiresOnce ==
    [][/\ Called("updateComboTimer") =>
            /\ op'.flag = (gs.combo > 0 /\ gs.comboTimer - op'.arg <= 0)
            /\ op'.flag => (gs'.combo = 0 /\ gs'.comboTimer = 0)
            /\ gs.combo = 0 => (gs' = gs /\ ~op'.flag)
            /\ (gs.combo > 0 /\ ~op'.flag) =>
                  (gs'.comboTimer = gs.comboTimer - op'.arg /\ gs'.combo = gs.combo)
       /\ (gs.combo = 0 /\ gs'.combo > 0) => op'.name = "incrementCombo"]_vars

\* the call in which the combo expired
C5_Witness ==
    /\ op.name = "updateComboTimer"
    /\ op.flag
    /\ gs.combo = 0
    /\ gs.bestCombo > 0

\* C6: loseLife never leaves a negative life count, whatever the number of
\* calls (called with lives = 0 it must stay at the floor).
C6_LivesNeverNegative == gs.lives >= 0

\* C8: within a session score never decreases, bestScore never decreases at
\* all (resets included), and bestScore >= score in every state.
C8_ScoreMonotone ==
    [][/\ gs.bestScore >= gs.score
       /\ gs'.bestScore >= gs'.score
       /\ gs'.bestScore >= gs.bestScore
       /\ op'.name # "reset" => gs'.score >= gs.score]_vars

\* after a reset the best score of the earlier session is still there
C8_Witness ==
    /\ op.name = "reset"
    /\ gs.score = 0
    /\ gs.bestScore = MULTIPLIER_CAP

(***************************************************************************)
(* Properties of the game (checked under SpecRun, SpecThrow, SpecHits)     *)
(***************************************************************************)
\* the step is a startGame(): the constructor's or a restart's
StartsGame == game'.last \in {"new", "restart"} /\ game' # game

\* C7: a restart (GameState.reset via Game.restart/startGame) sets score = 0,
\* lives = LIVES, combo = 0, combo timer = 0 and currentSpeed = AUTO_SPEED, and
\* leaves bestScore, bestCombo and isMuted exactly as they were before it.
C7_RestartKeepsBests ==
    [][StartsGame =>
          /\ gs'.score = 0
          /\ gs'.lives = LIVES
          /\ gs'.combo = 0
          /\ gs'.comboTimer = 0
          /\ gs'.currentSpeed = AUTO_SPEED * UNIT
          /\ gs'.bestScore = gs.bestScore
          /\ gs'.bestCombo = gs.bestCombo
          /\ gs'.isMuted = gs.isMuted]_vars

\* a muted second session that has scored 1 while the best score, 3, and the
\* best combo, 2, of the first session stand
C7_Witness ==
    /\ game.restarts = 1
    /\ gs.score = 1
    /\ gs.bestScore = 3
    /\ gs.bestCombo = 2
    /\ gs.currentSpeed > AUTO_SPEED * UNIT
    /\ gs.isMuted

\* C9 as claimed: gameOver is mutually exclusive with started once it is
\* true; in no reachable state are gameOver and started both true.
C9_GameOverExcludesStarted == ~(gs.gameOver /\ gs.started)

\* C9 as amended: gameOver is mutually exclusive with playing, not with
\* started.  started stays true once a session has begun, so gameOver implies
\* started; and while gameOver is true no frame changes the session: only a
\* restart does, and it clears gameOver.
C9_GameOverKeepsStarted ==
    [][/\ gs.gameOver => gs.started
       /\ gs'.gameOver => gs'.started
       /\ gs.gameOver =>
             \/ game'.last = "restart" /\ ~gs'.gameOver
             \/ <<gs', player', streetGen', homeowners', panicPoints', spectacle'>>
                   = <<gs, player, streetGen, homeowners, panicPoints, spectacle>>]_vars

\* the game is over, started is still true, and a frame has been rendered
\* since the one the player died in
C9_Witness ==
    /\ gs.gameOver
    /\ gs.started
    /\ gs.lives = 0
    /\ game.last = "animate"
    /\ events = <<>>

\* the events named `name` among evs
EventsNamed(evs, name) == {i \in 1 .. Len(evs) : evs[i].name = name}

\* the HOUSE_HIT events for the house h among evs
HitEventsAt(evs, h) ==
    {i \in EventsNamed(evs, "house:hit") : evs[i].x = h.x /\ evs[i].z = h.z}

SamePlace(h, k) == h.x = k.x /\ h.z = k.z

\* envelope e is within the collision threshold of house h
Overlaps(e, h) == Within(e.x - h.x, e.z - h.z, COLLISION_THRESHOLD)

\* C10: a house goes from unhit to hit at most once and never back; each house
\* causes at most one HOUSE_HIT event, one combo increment and one score award;
\* when two live envelopes overlap the same unhit house in the same frame,
\* exactly one of them registers the hit and is retired, and the other stays
\* alive and registers nothing on that house.
C10_HouseHitOnce ==
    [][game'.last = "animate" =>
          LET before == streetGen.houses
              after == streetGen'.houses
              envs == player'.envelopes
              wasHit(k) == \E j \in 1 .. Len(before) :
                              SamePlace(before[j], after[k]) /\ before[j].isHit
              hitNow == {k \in 1 .. Len(after) : after[k].isHit /\ ~wasHit(k)}
              retired == {i \in 1 .. Len(envs) : ~envs[i].alive}
              over(k) == {i \in 1 .. Len(envs) : Overlaps(envs[i], after[k])}
              expired == player.ready /\ gs.combo > 0 /\ gs.comboTimer - MAX_DELTA <= 0
          IN /\ \A k \in 1 .. Len(after) : wasHit(k) => after[k].isHit
             /\ \A k \in 1 .. Len(after) :
                   Cardinality(HitEventsAt(events', after[k])) = IF k \in hitNow THEN 1 ELSE 0
             /\ Cardinality(EventsNamed(events', "house:hit")) = Cardinality(hitNow)
             /\ gs'.housesHit = gs.housesHit + Cardinality(hitNow)
             /\ EventsNamed(events', "agent:collision") = {} =>
                   gs'.combo = (IF expired THEN 0 ELSE gs.combo) + Cardinality(hitNow)
             /\ Cardinality(EventsNamed(events', "score:changed"))
                   = Cardinality(hitNow) + Cardinality(EventsNamed(events', "panic:collected"))
             /\ Cardinality(retired) = Cardinality(hitNow)
             /\ \A k \in hitNow : Cardinality(over(k) \cap retired) = 1
             /\ \A k \in 1 .. Len(after) :
                   (over(k) # {} /\ Abs(after[k].z - player'.z) < 50 * UNIT) => after[k].isHit]_vars

\* two envelopes overlap one house in the frame it was hit: the first is
\* retired, the second is alive, and the house has one HOUSE_HIT event
C10_Witness ==
    /\ game.last = "animate"
    /\ Len(player.envelopes) = 2
    /\ ~player.envelopes[1].alive
    /\ player.envelopes[2].alive
    /\ \E k \in 1 .. Len(streetGen.houses) :
          /\ streetGen.houses[k].isHit
          /\ Overlaps(player.envelopes[1], streetGen.houses[k])
          /\ Overlaps(player.envelopes[2], streetGen.houses[k])
          /\ Cardinality(HitEventsAt(events, streetGen.houses[k])) = 1

\* the combo at the moment the frame's collision checks begin: Player.update
\* has run the combo timer by then
ComboAfterTimer ==
    IF player.ready /\ gs.combo > 0 /\ gs.comboTimer - MAX_DELTA <= 0 THEN 0
    ELSE gs.combo

\* the HOUSE_HIT events among evs, in the order they were published
HitEvents(evs) == SelectSeq(evs, LAMBDA e : e.name = "house:hit")

\* the score of n successive hits made from combo c
RECURSIVE HitScore(_, _)
HitScore(c, n) == IF n = 0 THEN 0 ELSE HitScore(c, n - 1) + Min(c + n, MULTIPLIER_CAP)

\* C11: on a hit the combo is incremented first and the score awarded is
\* scaled by the post-increment multiplier: with pre-hit combo c the score
\* rises by min(c + 1, MULTIPLIER_CAP) and the HOUSE_HIT event carries c + 1
\* (the k-th hit of a frame counts from c + k - 1; a pickup collected in the
\* same frame adds the multiplier of the combo the frame ends with).
C11_ComboThenScore ==
    [][game'.last = "animate" =>
          LET hits == HitEvents(events')
              n == Len(hits)
              collected == Cardinality(EventsNamed(events', "panic:collected"))
          IN /\ \A k \in 1 .. n : hits[k].combo = ComboAfterTimer + k
             /\ gs'.score = gs.score + HitScore(ComboAfterTimer, n)
                               + collected * Multiplier(gs'.combo)]_vars

\* a second hit within the combo window: its event carries combo 2 and it
\* brought the score from 1 to 3
C11_Witness ==
    /\ game.last = "animate"
    /\ \E i \in EventsNamed(events, "house:hit") : events[i].combo = 2
    /\ \E i \in EventsNamed(events, "combo:changed") : events[i].combo = 2
    /\ gs.score = 3

\* the frame registers exactly one hit and collects no pickup
OneHitFrame ==
    /\ game'.last = "animate"
    /\ Len(HitEvents(events')) = 1
    /\ EventsNamed(events', "panic:collected") = {}

\* C12 as claimed: when a thrown projectile hits a target, the score rises by
\* 1 x the pre-hit combo multiplier, max(1, min(c, MULTIPLIER_CAP)) for the
\* combo c immediately before the hit.
C12_ScoreByPreHitCombo ==
    [][OneHitFrame => gs'.score = gs.score + Multiplier(ComboAfterTimer)]_vars

\* C12 as amended: the score rises by 1 x the multiplier of the combo after
\* the hit's own increment, min(c + 1, MULTIPLIER_CAP); that is the pre-hit
\* multiplier only when c = 0 (the first hit of a combo, 1 point) or when c
\* has reached the cap.
C12_ScoreByPostHitCombo ==
    [][OneHitFrame =>
          /\ gs'.score = gs.score + Multiplier(ComboAfterTimer + 1)
          /\ (gs'.score = gs.score + Multiplier(ComboAfterTimer))
                <=> (ComboAfterTimer = 0 \/ ComboAfterTimer >= MULTIPLIER_CAP)]_vars

\* one hit made at combo 1 was worth 2 points
C12_Witness ==
    /\ game.last = "animate"
    /\ Len(HitEvents(events)) = 1
    /\ EventsNamed(events, "panic:collected") = {}
    /\ gs.combo = 2
    /\ gs.housesHit = 2
    /\ gs.score = 3

\* the frame is one of a session being played
Playing == gs.started /\ ~gs.gameOver /\ player.exists

\* agent a of this frame is agent b of the frame before, one step further
SameAgent(b, a) == a.x = b.x /\ a.z = b.z + Scale(AGENT_SPEED, MAX_DELTA)

\* the agents of the next state that collided in this step
CollidedNow ==
    {k \in 1 .. Len(streetGen'.agents) :
        /\ streetGen'.agents[k].hasCollided
        /\ ~\E j \in 1 .. Len(streetGen.agents) :
               /\ SameAgent(streetGen.agents[j], streetGen'.agents[k])
               /\ streetGen.agents[j].hasCollided}

\* C13: an agent damages the player at most once: its hasCollided flag goes
\* from false to true at most once and never back, a life is lost and an
\* AGENT_COLLISION event published only in the frame in which an agent's flag
\* is set, for that agent, and an agent whose flag is set causes neither again.
C13_AgentDamagesOnce ==
    [][game'.last = "animate" =>
          IF Playing
          THEN LET before == streetGen.agents
                   after == streetGen'.agents
                   collisions == EventsNamed(events', "agent:collision")
               IN /\ \A j \in 1 .. Len(before), k \in 1 .. Len(after) :
                        (SameAgent(before[j], after[k]) /\ before[j].hasCollided)
                           => after[k].hasCollided
                  /\ \A j, k \in 1 .. Len(after) :
                        (after[j].x = after[k].x /\ after[j].z = after[k].z) => j = k
                  /\ Cardinality(CollidedNow) <= 1
                  /\ Cardinality(collisions) = Cardinality(CollidedNow)
                  /\ gs'.lives = gs.lives - Cardinality(CollidedNow)
                  /\ \A i \in collisions : \E k \in CollidedNow :
                        events'[i].x = after[k].x /\ events'[i].z = after[k].z
          ELSE /\ streetGen' = streetGen
               /\ gs'.lives = gs.lives
               /\ events' = <<>>]_vars

\* the frame after a collision: the agent that cost a life still overlaps the
\* player, and nothing more has come of it
C13_Witness ==
    /\ game.last = "animate"
    /\ gs.lives = LIVES - 1
    /\ EventsNamed(events, "agent:collision") = {}
    /\ \E k \in 1 .. Len(streetGen.agents) :
          /\ streetGen.agents[k].hasCollided
          /\ streetGen.agents[k].alive
          /\ Within(streetGen.agents[k].x - player.x, streetGen.agents[k].z - player.z,
                    COLLISION_RADIUS)

\* the invincibility timer at the moment the frame's collision checks begin:
\* Player.update has run it down by then
InvincibleAtCheck ==
    IF player.ready /\ player.invincibleTimer > 0
    THEN player.invincibleTimer - MAX_DELTA
    ELSE player.invincibleTimer

\* an agent that has not collided overlaps the player
AgentOverlapsPlayer(st, p) ==
    \E k \in 1 .. Len(st.agents) :
        /\ st.agents[k].alive
        /\ ~st.agents[k].hasCollided
        /\ Within(st.agents[k].x - p.x, st.agents[k].z - p.z, COLLISION_RADIUS)

\* C14: a collision that damages the player takes exactly one life, resets
\* the combo (and its timer) to 0 and starts the invincibility timer; in a
\* frame whose collision checks find the invincibility timer above 0 no life
\* is lost and no agent is marked, whatever overlaps the player; and at most
\* one agent damages the player in a frame.
C14_DamageOncePerWindow ==
    [][(game'.last = "animate" /\ Playing) =>
          LET collisions == EventsNamed(events', "agent:collision")
              damaged == gs'.lives # gs.lives
          IN /\ gs'.lives = gs.lives - Cardinality(collisions)
             /\ Cardinality(collisions) <= 1
             /\ Cardinality(collisions) = Cardinality(CollidedNow)
             /\ Cardinality(EventsNamed(events', "player:hit")) = Cardinality(collisions)
             /\ damaged =>
                   /\ gs'.combo = 0
                   /\ gs'.comboTimer = 0
                   /\ player'.invincibleTimer = INVINCIBILITY_DURATION
                   /\ InvincibleAtCheck <= 0
             /\ ~damaged =>
                   /\ player'.invincibleTimer = InvincibleAtCheck
                   /\ InvincibleAtCheck <= 0 => ~AgentOverlapsPlayer(streetGen', player')
             /\ InvincibleAtCheck > 0 => ~damaged]_vars

\* an agent that has not collided overlaps the player inside the invincibility
\* window opened by the collision that took a life and a combo: no life lost
C14_Witness ==
    /\ game.last = "animate"
    /\ player.invincibleTimer > 0
    /\ player.invincibleTimer < INVINCIBILITY_DURATION
    /\ AgentOverlapsPlayer(streetGen, player)
    /\ gs.lives = LIVES - 1
    /\ gs.combo = 0
    /\ gs.bestCombo > 0
    /\ events = <<>>

\* the panic points of the next state that were collected in this step
CollectedNow ==
    {k \in 1 .. Len(panicPoints') :
        /\ panicPoints'[k].collected
        /\ ~\E j \in 1 .. Len(panicPoints) :
               SamePlace(panicPoints[j], panicPoints'[k]) /\ panicPoints[j].collected}

\* C15: collecting is idempotent: collect() changes a pickup only the first
\* time (a second call leaves it as it is), a collected pickup is never
\* uncollected, and PANIC_COLLECTED is published and score awarded only in the
\* frame in which a pickup becomes collected, once for each such pickup, even
\* while the player goes on overlapping it.
C15_CollectOnce ==
    [][game'.last = "animate" =>
          /\ \A k \in 1 .. Len(panicPoints') :
                LET pp == panicPoints'[k] IN
                /\ PanicPointCollect(PanicPointCollect(pp)) = PanicPointCollect(pp)
                /\ pp.collected => PanicPointCollect(pp) = pp
                /\ PanicPointCollect(pp).collected
          /\ \A j, k \in 1 .. Len(panicPoints') :
                SamePlace(panicPoints'[j], panicPoints'[k]) => j = k
          /\ \A j \in 1 .. Len(panicPoints), k \in 1 .. Len(panicPoints') :
                (SamePlace(panicPoints[j], panicPoints'[k]) /\ panicPoints[j].collected)
                   => panicPoints'[k].collected
          /\ Cardinality(EventsNamed(events', "panic:collected")) = Cardinality(CollectedNow)
          /\ EventsNamed(events', "house:hit") = {} =>
                gs'.score = gs.score + Cardinality(CollectedNow) * Multiplier(gs'.combo)]_vars

\* the frame after a collection: the collected pickup is still there, the
\* player still overlaps it, and nothing more has come of it
C15_Witness ==
    /\ game.last = "animate"
    /\ events = <<>>
    /\ gs.score > gs.housesHit
    /\ \E k \in 1 .. Len(panicPoints) :
          /\ panicPoints[k].collected
          /\ panicPoints[k].alive
          /\ Within(panicPoints[k].x - player.x, panicPoints[k].z - player.z, COLLECT_RADIUS)

\* entity e with its alive flag cleared
Dead(e) == [e EXCEPT !.alive = FALSE]

\* envelope e, still alive, became a after one frame
SameEnvelope(e, a) == e.alive /\ EnvelopeUpdate(e, MAX_DELTA) = [a EXCEPT !.alive = TRUE]

\* envelope a was thrown in the frame that has just been computed
JustThrown(a) == a.distanceTraveled = Scale(ENVELOPE_SPEED, MAX_DELTA)

\* C16: alive = false is terminal in every pool.  No update sets the flag back
\* and no check accepts a dead entity: an envelope retired by a hit is dead in
\* the pool for one frame, is never alive there again and hits nothing more
\* (every hit of a frame is made by an envelope that was alive when the frame
\* began or was thrown in it); agents, pickups and homeowners leave their pool
\* in the frame they die, and their updates and checks leave a dead one dead
\* and unregistered.
C16_DeadStaysDead ==
    [][(game'.last = "animate" /\ Playing) =>
          LET before == player.envelopes
              after == player'.envelopes
              retired == {k \in 1 .. Len(after) : ~after[k].alive}
          IN /\ \A j \in 1 .. Len(before) :
                   ~before[j].alive =>
                      /\ ~EnvelopeUpdate(before[j], MAX_DELTA).alive
                      /\ \A k \in 1 .. Len(after) :
                            ~(after[k].x = before[j].x /\ after[k].z = before[j].z)
                      /\ \A h \in 1 .. Len(streetGen'.houses) :
                            ~CheckHouse(before[j], [streetGen'.houses[h] EXCEPT !.isHit = FALSE])
             /\ \A k \in retired :
                   JustThrown(after[k]) \/ \E j \in 1 .. Len(before) : SameEnvelope(before[j], after[k])
             /\ Cardinality(EventsNamed(events', "house:hit")) = Cardinality(retired)
             /\ \A k \in 1 .. Len(streetGen'.agents) :
                   LET a == streetGen'.agents[k] IN
                   /\ a.alive
                   /\ ~AgentUpdate(Dead(a), MAX_DELTA, player'.z).alive
                   /\ ~AgentCheckPlayer(Dead(a), a.x, a.z)
             /\ \A k \in 1 .. Len(panicPoints') :
                   LET pp == panicPoints'[k] IN
                   /\ pp.alive
                   /\ ~PanicPointUpdate(Dead(pp), MAX_DELTA).alive
                   /\ ~PanicPointCheckPlayer(Dead(pp), pp.x, pp.z)
             /\ \A k \in 1 .. Len(homeowners') :
                   LET hw == homeowners'[k] IN
                   /\ hw.alive
                   /\ ~HomeownerUpdate(Dead(hw), MAX_DELTA).alive
                   /\ HomeownerUpdate(Dead(hw), MAX_DELTA).pendingDrops = <<>>]_vars

\* an envelope retired by a hit lies dead in the pool while agents, pickups
\* and homeowners are about
C16_Witness ==
    /\ game.last = "animate"
    /\ \E k \in 1 .. Len(player.envelopes) : ~player.envelopes[k].alive
    /\ streetGen.agents # <<>>
    /\ panicPoints # <<>>
    /\ homeowners # <<>>

(***************************************************************************)
(* Properties of the street generator (checked under SpecStreet)           *)
(***************************************************************************)
\* C17: the spawn window is always refilled: after every update(delta,
\* playerZ), whatever the calls before it, generatedZ > playerZ -
\* SPAWN_DISTANCE is false, and so it is right after construction and after
\* reset for playerZ = 0.
C17_WindowRefilled ==
    streetGen.exists => ~(streetGen.generatedZ > game.playerZ - SPAWN_DISTANCE)

\* an update that found the window more than a row short has refilled it
C17_Witness ==
    /\ game.last = "street:update"
    /\ game.playerZ <= -7 * UNIT
    /\ streetGen.generatedZ <= game.playerZ - SPAWN_DISTANCE
    /\ streetGen.generatedZ > game.playerZ - SPAWN_DISTANCE - SPACING_Z

\* the rows generated by a step: the z of each, from the old mark down to
\* (and without) the new one
RowsGenerated ==
    {streetGen.generatedZ - k * SPACING_Z :
        k \in 0 .. ((streetGen.generatedZ - streetGen'.generatedZ) \div SPACING_Z) - 1}

\* the houses of st standing at row z on the given side
HousesAt(st, z, side) ==
    {i \in 1 .. Len(st.houses) : st.houses[i].z = z /\ st.houses[i].side = side}

\* C18: generatedZ only decreases between resets: no update() increases it,
\* every row an update generates lies one SPACING_Z below the one before
\* (the mark drops by SPACING_Z per row, and not below the first row at or
\* beyond the window's end), and only construction and reset set it anew.
C18_GeneratedZDecreases ==
    [][/\ game'.last = "street:update" =>
             /\ streetGen'.generatedZ <= streetGen.generatedZ
             /\ (streetGen.generatedZ - streetGen'.generatedZ) % SPACING_Z = 0
             /\ streetGen'.generatedZ < streetGen.generatedZ =>
                   streetGen'.generatedZ > game'.playerZ - SPAWN_DISTANCE - SPACING_Z
             /\ \A z \in RowsGenerated :
                   \A side \in {"left", "right"} :
                      Cardinality(HousesAt(streetGen', z, side))
                         = IF RandomHouse(streetGen.seed, z, side) THEN 1 ELSE 0
             /\ \A i \in 1 .. Len(streetGen'.houses) :
                   \/ streetGen'.houses[i].z \in RowsGenerated
                   \/ \E j \in 1 .. Len(streetGen.houses) :
                         streetGen.houses[j] = streetGen'.houses[i]
       /\ streetGen'.generatedZ > streetGen.generatedZ =>
             game'.last \in {"street:new", "street:reset"}
       /\ game'.last \in {"street:new", "street:reset"} =>
             streetGen'.generatedZ = 10 * UNIT - 15 * SPACING_Z]_vars

\* an update for a player that stepped back: the mark stays where it was,
\* more than a row beyond the window's end
C18_Witness ==
    /\ game.last = "street:update"
    /\ streetGen.generatedZ <= game.playerZ - SPAWN_DISTANCE - SPACING_Z
    /\ game.updates >= 2

\* C19: reset() is an idempotent restart: after it, whatever updates came
\* before, no agent is left and generatedZ, the street-end mark and the agent
\* timer are what they are after construction (the whole generator is, for
\* the same draws of houses), and a second reset changes nothing.
C19_ResetIsRestart ==
    [][game'.last = "street:reset" =>
          /\ streetGen'.agents = <<>>
          /\ streetGen'.generatedZ = StreetGeneratorNew(1).generatedZ
          /\ streetGen'.lastStreetEnd = StreetGeneratorNew(1).lastStreetEnd
          /\ streetGen'.lastStreetEnd = -SPAWN_DISTANCE - 20 * UNIT
          /\ streetGen'.agentTimer = SPAWN_INTERVAL
          /\ streetGen' = StreetGeneratorNew(streetGen'.seed)
          /\ StreetGeneratorReset(streetGen', streetGen'.seed) = streetGen'
          /\ \A i \in 1 .. Len(streetGen'.houses) : ~streetGen'.houses[i].isHit]_vars

\* a reset after three updates or more: no agent, the timer at its start
C19_Witness ==
    /\ game.last = "street:reset"
    /\ game.updates >= 3
    /\ streetGen.agents = <<>>
    /\ streetGen.agentTimer = SPAWN_INTERVAL

(***************************************************************************)
(* Properties of the near-miss slow motion (checked under SpecRun)         *)
(***************************************************************************)
\* the speed after the frame's Player.update, which the collision checks and
\* the near-miss handler find
SpeedAfterUpdate ==
    IF player.ready /\ gs.currentSpeed < MAX_SPEED
    THEN Min(MAX_SPEED, gs.currentSpeed + Scale(SPEED_INCREASE_RATE, MAX_DELTA))
    ELSE gs.currentSpeed

\* C20: the slow motion restores the speed it found: a near miss that starts
\* it saves the current speed, scales it and arms the timer; while the timer
\* runs, near misses neither save the speed again, nor scale it again, nor
\* extend the timer; and in the frame the timer expires currentSpeed is set to
\* the saved value itself, whatever the speed gained in between.
C20_SlowMoRestoresSpeed ==
    [][(game'.last = "animate" /\ Playing) =>
          LET nearMiss == EventsNamed(events', "spectacle:near_miss") # {}
          IN IF spectacle.slowMoTimer > 0
             THEN /\ spectacle'.slowMoOriginalSpeed = spectacle.slowMoOriginalSpeed
                  /\ spectacle'.slowMoTimer = spectacle.slowMoTimer - MAX_DELTA
                  /\ gs'.currentSpeed = IF spectacle'.slowMoTimer <= 0
                                        THEN spectacle.slowMoOriginalSpeed
                                        ELSE SpeedAfterUpdate
             ELSE IF nearMiss /\ spectacle.hasLastPlayerPos
             THEN /\ spectacle'.slowMoOriginalSpeed = SpeedAfterUpdate
                  /\ spectacle'.slowMoTimer = NEAR_MISS_SLOWMO_DURATION - MAX_DELTA
                  /\ gs'.currentSpeed = Scale(SpeedAfterUpdate, NEAR_MISS_SLOWMO_FACTOR)
             ELSE /\ spectacle'.slowMoOriginalSpeed = spectacle.slowMoOriginalSpeed
                  /\ spectacle'.slowMoTimer = spectacle.slowMoTimer
                  /\ gs'.currentSpeed = SpeedAfterUpdate]_vars

\* a near miss arrived while the slow motion was running, in the frame its
\* timer expired: the speed is the saved one
C20_Witness ==
    /\ game.last = "animate"
    /\ EventsNamed(events, "spectacle:near_miss") # {}
    /\ spectacle.slowMoTimer <= 0
    /\ spectacle.slowMoOriginalSpeed > AUTO_SPEED * UNIT
    /\ gs.currentSpeed = spectacle.slowMoOriginalSpeed

\* ---- C21 ----
\* the events SpectacleSystem._bindEvents subscribes to
SpectacleEvents ==
    {"spectacle:entrance", "spectacle:action", "spectacle:hit", "panic:collected",
     "spectacle:combo", "spectacle:streak", "spectacle:near_miss", "player:hit",
     "combo:changed", "house:hit"}

\* v differs from w in nothing of the gameplay but currentSpeed
GameplayKept(w, v) ==
    /\ [v.gs EXCEPT !.currentSpeed = w.gs.currentSpeed] = w.gs
    /\ v.player = w.player
    /\ v.streetGen = w.streetGen
    /\ v.homeowners = w.homeowners
    /\ v.panicPoints = w.panicPoints

\* C21: the spectacle layer writes no gameplay state but currentSpeed: in
\* every reachable state, each of its event handlers, its update() and its
\* reset() leave score, bestScore, lives, combo, bestCombo, the combo timer,
\* started, gameOver (the whole GameState but currentSpeed), the player and
\* the pools of houses, agents, envelopes, homeowners and pickups as they
\* were; in particular the addScore(0) of the house-hit handler leaves score
\* and bestScore unchanged.
C21_SpectacleWritesOnlySpeed ==
    /\ \A name \in SpectacleEvents : GameplayKept(World, Emit(World, name, 0, 0))
    /\ GameplayKept(World, SpectacleUpdate(World, MAX_DELTA))
    /\ GameplayKept(World, [World EXCEPT !.spectacle = SpectacleReset(spectacle)])
    /\ LET g == OnHouseHit(World).gs IN g.score = gs.score /\ g.bestScore = gs.bestScore

\* the house-hit handler ran twice in the session (the second time with the
\* multiplier 2) and the near-miss handler has slowed the player down
C21_Witness ==
    /\ gs.housesHit >= 2
    /\ gs.score >= 3
    /\ spectacle.slowMoTimer > 0
    /\ gs.currentSpeed < spectacle.slowMoOriginalSpeed

\* ---- C22 ----
\* C22: game over is entered exactly when the lives reach zero and left only
\* by a restart: after every step gameOver holds if and only if lives = 0;
\* gameOver becomes true only in a frame whose damage step takes the last
\* life (player:hit, then game:over); and it becomes false only by restart.
C22_GameOverIffNoLives ==
    /\ [](gs.gameOver <=> gs.lives = 0)
    /\ [][/\ (~gs.gameOver /\ gs'.gameOver) =>
                /\ game'.last = "animate"
                /\ gs.lives = 1
                /\ gs'.lives = 0
                /\ EventsNamed(events', "player:hit") # {}
                /\ EventsNamed(events', "game:over") # {}
          /\ (gs.gameOver /\ ~gs'.gameOver) =>
                /\ game'.last = "restart"
                /\ gs'.lives = LIVES]_vars

\* the session ended with the third collision and was restarted
C22_Witness ==
    /\ game.last = "restart"
    /\ game.restarts = 1
    /\ ~gs.gameOver
    /\ gs.lives = LIVES
    /\ gs.started

\* ---- C23 ----
RestartReturns == game'.last = "restart" /\ game'.restarts = game.restarts + 1

\* the pools hold nothing and the player is a new one at the start position
RestartClearsGame ==
    /\ player'.envelopes = <<>>
    /\ homeowners' = <<>>
    /\ panicPoints' = <<>>
    /\ streetGen'.agents = <<>>
    /\ player' = PlayerNew
    /\ player'.x = 0 /\ player'.z = 0
    /\ player'.throwCooldown = 0 /\ player'.invincibleTimer = 0

\* C23 as stated: when restart returns the pools of envelopes, homeowners,
\* pickups and agents are empty, the player is a new instance at the start
\* position with throw cooldown 0 and invincibility timer 0, and the
\* slow-motion, flash and shake timers of the spectacle system are 0.
C23_RestartZeroesAllTimers ==
    [][RestartReturns =>
          /\ RestartClearsGame
          /\ spectacle'.slowMoTimer = 0
          /\ spectacle'.shakeTimer = 0
          /\ spectacle'.flashTimer = 0]_vars

\* C23, amended: when restart returns the pools are empty, the player is a
\* new instance at the start position with both timers 0, the slow-motion
\* and shake timers are 0, and the flash running before the restart is
\* replaced by the entrance flash of the new session: startGame() publishes
\* spectacle:entrance after reset(), so the flash timer is
\* ENTRANCE_FLASH_DURATION.
C23_RestartCancelsOldTimers ==
    [][RestartReturns =>
          /\ RestartClearsGame
          /\ spectacle'.slowMoTimer = 0
          /\ spectacle'.shakeTimer = 0
          /\ spectacle'.flashTimer = ENTRANCE_FLASH_DURATION
          /\ EventsNamed(events', "spectacle:entrance") # {}]_vars

\* a session in which a house was hit and the player was hit has been
\* restarted
C23_Witness ==
    /\ game.last = "restart"
    /\ game.restarts = 1
    /\ gs.bestScore > 0
    /\ gs.lives = LIVES
    /\ player = PlayerNew
    /\ spectacle.flashTimer = ENTRANCE_FLASH_DURATION

\* ---- C24 ----
MuteSteps == {"mute", "mute:write_throws"}

\* C24: the mute preference falls back to unmuted and startup goes on: after
\* construction isMuted is true if and only if the stored item is exactly
\* 'true' (an absent or corrupt item, or a read that throws, gives false);
\* the game is then constructed and played whatever the item was; a toggle
\* flips the in-memory isMuted whether or not the write throws, a write that
\* throws leaves the stored item alone, and no other step writes either.
C24_MuteFallsBackUnmuted ==
    /\ [](game.last = "none" => (gs.isMuted <=> storage = "true"))
    /\ [][IF game'.last \in MuteSteps /\ events' # <<>> /\ events'[1].name = "audio:toggle_mute"
          THEN /\ gs'.isMuted = ~gs.isMuted
               /\ gs' = [gs EXCEPT !.isMuted = ~gs.isMuted]
               /\ storage' = IF game'.last = "mute:write_throws" THEN storage
                             ELSE IF gs'.isMuted THEN "true" ELSE "false"
          ELSE gs'.isMuted = gs.isMuted /\ storage' = storage]_vars

\* the read threw at startup, the game started unmuted, and a toggle whose
\* write threw has muted it
C24_Witness ==
    /\ storage = "throws"
    /\ gs.isMuted
    /\ gs.started
    /\ game.last = "mute:write_throws"

\* ---- C25 ----
\* what a playing frame does to the player's position, timers and envelopes
PlayerAdvanced ==
    /\ player'.z = player.z - Scale(gs.currentSpeed, MAX_DELTA)
    /\ player'.throwCooldown =
          IF gs'.totalThrown > gs.totalThrown THEN COOLDOWN - MAX_DELTA
          ELSE IF player.throwCooldown > 0 THEN player.throwCooldown - MAX_DELTA
          ELSE player.throwCooldown
    /\ player.invincibleTimer > 0 =>
          player'.invincibleTimer \in {player.invincibleTimer - MAX_DELTA,
                                       INVINCIBILITY_DURATION}
    /\ \A i \in 1 .. Len(player'.envelopes) :
          player'.envelopes[i].distanceTraveled >= Scale(ENVELOPE_SPEED, MAX_DELTA)
    /\ gs.comboTimer > 0 =>
          gs'.comboTimer \in {gs.comboTimer - MAX_DELTA, TIMEOUT_MS, 0}

\* C25: gameplay never blocks on the player's model: in every playing frame
\* the player's forward position, throw cooldown, invincibility timer,
\* envelopes and combo timer are advanced, whether the model is still
\* loading, has loaded or has failed to load.
C25_FramesAdvanceWhileLoading ==
    [][(game'.last = "animate" /\ Playing) => PlayerAdvanced]_vars

\* ---- C26 ----
SlowMoActive(sp) == sp.slowMoTimer > 0

\* C26: currentSpeed never exceeds MAX_SPEED, and outside a slow-motion window
\* it never decreases within a session: a step that starts and ends outside
\* the window leaves the speed alone or adds SPEED_INCREASE_RATE * delta,
\* clamped to MAX_SPEED; a window is entered with a saved speed no lower than
\* the speed before it and left with that saved speed; and the speed is set
\* back to AUTO_SPEED only by the reset of a (re)start.
C26_SpeedCappedMonotone ==
    /\ [](gs.currentSpeed <= MAX_SPEED)
    /\ [][IF game'.last = "restart" /\ game'.restarts # game.restarts
          THEN gs'.currentSpeed = AUTO_SPEED * UNIT
          ELSE /\ (~SlowMoActive(spectacle) /\ ~SlowMoActive(spectacle')) =>
                     /\ gs'.currentSpeed >= gs.currentSpeed
                     /\ gs'.currentSpeed \in
                           {gs.currentSpeed,
                            Min(MAX_SPEED,
                                gs.currentSpeed + Scale(SPEED_INCREASE_RATE, MAX_DELTA))}
               /\ (~SlowMoActive(spectacle) /\ SlowMoActive(spectacle')) =>
                     /\ spectacle'.slowMoOriginalSpeed >= gs.currentSpeed
                     /\ spectacle'.slowMoOriginalSpeed <= MAX_SPEED
               /\ (SlowMoActive(spectacle) /\ ~SlowMoActive(spectacle')) =>
                     gs'.currentSpeed = spectacle.slowMoOriginalSpeed]_vars

\* the speed reached the cap after a slow motion entered below the cap has
\* ended, in the same session
C26_Witness ==
    /\ game.restarts = 0
    /\ gs.currentSpeed = MAX_SPEED
    /\ ~SlowMoActive(spectacle)
    /\ spectacle.slowMoOriginalSpeed > 0
    /\ spectacle.slowMoOriginalSpeed < MAX_SPEED

\* ---- C27 ----
\* the envelopes of the pool that outlive one update
Survivors(envs) ==
    {j \in 1 .. Len(envs) : envs[j].alive /\ EnvelopeUpdate(envs[j], MAX_DELTA).alive}

\* C27: an envelope registers at most one hit in its life.  In every playing
\* frame of a loaded player each house:hit comes from an envelope of its own
\* (as many envelopes are retired in the pool as hits were published, and
\* each retired one overlaps a house hit in this frame); the envelopes left
\* in the pool are those that were alive and are still within MAX_DISTANCE
\* plus the one thrown in the frame, so that an envelope retired by a hit in
\* the frame before, or one whose distanceTraveled has reached MAX_DISTANCE,
\* is out of the pool before the scan; and every alive envelope has
\* distanceTraveled < MAX_DISTANCE.
C27_OneHitPerEnvelope ==
    [][(game'.last = "animate" /\ Playing /\ player.ready) =>
          LET before == player.envelopes
              after == player'.envelopes
              retired == {k \in 1 .. Len(after) : ~after[k].alive}
              thrown == gs'.totalThrown - gs.totalThrown
          IN /\ Cardinality(EventsNamed(events', "house:hit")) = Cardinality(retired)
             /\ gs'.housesHit = gs.housesHit + Cardinality(retired)
             /\ \A k \in retired :
                   /\ after[k].distanceTraveled < MAX_DISTANCE
                   /\ \E i \in EventsNamed(events', "house:hit") :
                         Overlaps(after[k], events'[i])
             /\ Len(after) = Cardinality(Survivors(before)) + thrown
             /\ \A j \in Survivors(before) : \E k \in 1 .. Len(after) :
                   SameEnvelope(before[j], after[k])
             /\ \A k \in 1 .. Len(after) :
                   after[k].distanceTraveled < MAX_DISTANCE]_vars

\* an envelope has hit a house, and another one, thrown at the same house and
\* arriving after it was hit, has flown on and is about to reach MAX_DISTANCE
C27_Witness ==
    /\ game.last = "animate"
    /\ gs.housesHit = 1
    /\ gs.totalThrown = 2
    /\ \E i \in 1 .. Len(player.envelopes) :
          /\ player.envelopes[i].alive
          /\ player.envelopes[i].distanceTraveled
                >= MAX_DISTANCE - Scale(ENVELOPE_SPEED, MAX_DELTA)

\* ---- C28 ----
HitHouses(st) == {i \in 1 .. Len(st.houses) : st.houses[i].isHit}

\* the houses of the street after the step that were not hit before it
NewlyHit ==
    {i \in HitHouses(streetGen') :
        \A j \in HitHouses(streetGen) : ~SamePlace(streetGen.houses[j], streetGen'.houses[i])}

\* C28: exactly one homeowner is spawned per house hit.  In every step of a
\* session the homeowners spawned (homeowner:spawned events, each with a new
\* homeowner in the pool), the increase of housesHit, the house:hit events and
\* the houses that went from unhit to hit are equal in number, and the
\* homeowner leaves the house that was hit; a (re)start begins with all four
\* at zero.  So within a session the homeowners ever spawned = housesHit =
\* the house:hit events = the houses hit in the session.
C28_OneHomeownerPerHit ==
    /\ [](Cardinality(HitHouses(streetGen)) <= gs.housesHit)
    /\ [][IF game'.last \in {"new", "restart"} /\ game' # game
          THEN /\ gs'.housesHit = 0
               /\ homeowners' = <<>>
               /\ HitHouses(streetGen') = {}
               /\ EventsNamed(events', "homeowner:spawned") = {}
               /\ EventsNamed(events', "house:hit") = {}
          ELSE LET spawned == EventsNamed(events', "homeowner:spawned")
                   hits == EventsNamed(events', "house:hit")
                   fresh == {k \in 1 .. Len(homeowners') : homeowners'[k].timeAlive = MAX_DELTA}
               IN /\ Cardinality(spawned) = gs'.housesHit - gs.housesHit
                  /\ Cardinality(spawned) = Cardinality(hits)
                  /\ Cardinality(spawned) = Cardinality(NewlyHit)
                  /\ Cardinality(spawned) = Cardinality(fresh)
                  /\ \A i \in spawned : \E j \in NewlyHit :
                        SamePlace(events'[i], streetGen'.houses[j])]_vars

\* the second session has hit two houses and both homeowners are running
C28_Witness ==
    /\ game.restarts = 1
    /\ gs.housesHit = 2
    /\ Len(homeowners) = 2
    /\ Cardinality(HitHouses(streetGen)) = 2

\* ---- C29 ----
AllAlive(pool) == \A i \in 1 .. Len(pool) : pool[i].alive

\* C29: a dead entity leaves its pool in the frame it dies, an envelope
\* retired by a hit in the frame after.  After every step the pools of agents,
\* pickups and homeowners hold no entity with alive = false; in a playing
\* frame the agents and homeowners left are those whose update leaves them
\* alive plus those spawned in the frame, a collected pickup whose flash ends
\* is gone, and no envelope that was dead when the frame began is still in
\* the pool when it ends.
C29_DeadAreSwept ==
    /\ [](/\ AllAlive(streetGen.agents)
          /\ AllAlive(panicPoints)
          /\ AllAlive(homeowners))
    /\ [][(game'.last = "animate" /\ Playing /\ player.ready) =>
             LET agentsLeft == {j \in 1 .. Len(streetGen.agents) :
                                   AgentUpdate(streetGen.agents[j], MAX_DELTA, player.z).alive}
                 agentsNew == Len(streetGen'.agents) - Cardinality(agentsLeft)
                 runners == {j \in 1 .. Len(homeowners) :
                                HomeownerUpdate(homeowners[j], MAX_DELTA).alive}
             IN /\ agentsNew \in {0, 1}
                /\ agentsNew = 1 => streetGen.agentTimer - MAX_DELTA <= 0
                /\ Len(homeowners') = Cardinality(runners)
                      + Cardinality(EventsNamed(events', "homeowner:spawned"))
                /\ \A j \in 1 .. Len(panicPoints) :
                      ~PanicPointUpdate(panicPoints[j], MAX_DELTA).alive =>
                         \A k \in 1 .. Len(panicPoints') :
                            ~SamePlace(panicPoints'[k], panicPoints[j])
                /\ \A j \in 1 .. Len(player.envelopes) :
                      ~player.envelopes[j].alive =>
                         \A k \in 1 .. Len(player'.envelopes) :
                            player'.envelopes[k] # player.envelopes[j]]_vars

\* the envelope that hit a house, its homeowner, a pickup the player collected
\* and the first agent, which has passed the player, have all left their pools
C29_Witness ==
    /\ game.last = "animate"
    /\ gs.housesHit = 1
    /\ gs.score >= 2
    /\ player.envelopes = <<>>
    /\ homeowners = <<>>
    /\ \A k \in 1 .. Len(panicPoints) : ~panicPoints[k].collected
    /\ \A k \in 1 .. Len(streetGen.agents) : streetGen.agents[k].z < player.z
    /\ player.z < -65 * UNIT

\* ---- C30 ----
\* a throw requested in the current state does nothing at all
ThrowIgnored ==
    \A target \in {NoTarget, FindThrowTarget(streetGen, player.x, player.z)} :
       ThrowEnvelope(World, target) = World

\* the frame spawned an envelope
Spawned == gs'.totalThrown > gs.totalThrown

\* a frame begun with the cooldown running spawns nothing
NoThrowOnCooldown ==
    (game'.last = "animate" /\ Playing /\ player.throwCooldown > 0) =>
       /\ ~Spawned
       /\ gs'.totalThrown = gs.totalThrown
       /\ EventsNamed(events', "envelope:thrown") = {}
       /\ EventsNamed(events', "spectacle:action") = {}
       /\ Len(player'.envelopes) <= Len(player.envelopes)
       /\ player'.throwCooldown = IF player.ready THEN player.throwCooldown - MAX_DELTA
                                  ELSE player.throwCooldown

\* C30 as stated: a throw requested while the cooldown is > 0, or while
\* gameOver, is ignored (no envelope, totalThrown and the cooldown unchanged,
\* no event), and any two spawns are COOLDOWN or more of simulated time apart.
C30_SpawnsAlwaysApart ==
    /\ []((player.exists /\ (player.throwCooldown > 0 \/ gs.gameOver)) => ThrowIgnored)
    /\ [][/\ NoThrowOnCooldown
          /\ (game'.last = "animate" /\ Spawned) => game.sinceThrow >= COOLDOWN]_vars

\* C30, amended: a throw requested while the cooldown is > 0, or while
\* gameOver, is ignored (no envelope, totalThrown and the cooldown unchanged,
\* no event); so any two spawns of one session, which are spawns of the same
\* player, are COOLDOWN or more of simulated time apart.  The player of a new
\* session starts with cooldown 0 and may throw in its first frame, whatever
\* the time since the last throw of the session before.
C30_SpawnsOfASessionApart ==
    /\ []((player.exists /\ (player.throwCooldown > 0 \/ gs.gameOver)) => ThrowIgnored)
    /\ [][/\ NoThrowOnCooldown
          /\ (game'.last = "animate" /\ Spawned) =>
                /\ player.throwCooldown <= 0
                /\ gs.totalThrown > 0 => game.sinceThrow >= COOLDOWN]_vars

\* the second envelope of a session was spawned exactly COOLDOWN after the
\* first, the frames in between having left the throw key unanswered
C30_Witness ==
    /\ game.last = "animate"
    /\ gs.totalThrown = 2
    /\ game.sinceThrow = MAX_DELTA
    /\ Len(player.envelopes) = 2
    /\ player.envelopes[1].distanceTraveled - player.envelopes[2].distanceTraveled
          = Scale(ENVELOPE_SPEED, COOLDOWN)

\* ---- C31 ----
\* the agents left by the frame that are live, not collided, in range of the
\* player and inside the near-miss band (their positions and the player's are
\* those the frame's checks saw)
InBand ==
    {k \in 1 .. Len(streetGen'.agents) :
        /\ streetGen'.agents[k].alive
        /\ ~streetGen'.agents[k].hasCollided
        /\ Abs(streetGen'.agents[k].z - player'.z) < 5 * UNIT
        /\ NearMiss(streetGen'.agents[k], player'.x, player'.z)}

NearMissEvents == EventsNamed(events', "spectacle:near_miss")

\* C31: near-miss detection is independent of the damage check: in every
\* playing frame a near-miss event is published for each live, not-collided
\* agent in range whose distance is inside the band (0.7 < dist < 1.5), and
\* for no other, also in the frames in which the player is invincible.
C31_NearMissWhileInvincible ==
    [][(game'.last = "animate" /\ Playing) =>
          Cardinality(NearMissEvents) = Cardinality(InBand)]_vars

\* ---- C32 ----
\* the combo timer runs out in the frame that begins in the current state
\* (Player.update decrements it)
TimerExpires ==
    player.ready /\ gs.combo > 0 /\ gs.comboTimer > 0 /\ gs.comboTimer - MAX_DELTA <= 0

HitsNow == Cardinality(EventsNamed(events', "house:hit"))

\* the combo-reset events of the frame: COMBO_CHANGED with combo 0
ComboResets ==
    {i \in EventsNamed(events', "combo:changed") : events'[i].combo = 0}

NoCollisionNow == EventsNamed(events', "agent:collision") = {}

\* C32 as stated: the combo timer is updated after the envelope-house
\* collisions of the frame, so a hit re-arms the timer before it is
\* decremented: a hit in the frame in which the timer would run out continues
\* the combo (c + 1, not 1) and no combo-reset event is published in it.
C32_HitBeatsExpiry ==
    [][(game'.last = "animate" /\ Playing /\ player.ready
          /\ HitsNow > 0 /\ NoCollisionNow) =>
             /\ gs'.combo = gs.combo + HitsNow
             /\ gs'.comboTimer = TIMEOUT_MS
             /\ ComboResets = {}]_vars

\* C32, amended: the combo timer is updated inside the player's update,
\* before the envelope-house collisions of the frame.  A hit in a frame in
\* which the timer does not run out continues the combo (c + 1) and leaves the
\* timer at TIMEOUT_MS; in the frame in which the timer runs out the combo is
\* reset and a combo-reset event is published first, so a hit landing in that
\* frame starts a new combo at 1, after the reset event.
C32_ExpiryBeatsHit ==
    [][(game'.last = "animate" /\ Playing /\ player.ready /\ NoCollisionNow) =>
          /\ TimerExpires =>
                /\ gs'.combo = HitsNow
                /\ Cardinality(ComboResets) = 1
                /\ \A i \in ComboResets, j \in EventsNamed(events', "house:hit") : i < j
                /\ \A j \in EventsNamed(events', "house:hit") :
                      events'[j].combo <= HitsNow
          /\ ~TimerExpires =>
                /\ gs'.combo = gs.combo + HitsNow
                /\ ComboResets = {}
          /\ HitsNow > 0 => gs'.comboTimer = TIMEOUT_MS
          /\ (HitsNow = 0 /\ ~TimerExpires /\ player.ready /\ gs.combo > 0) =>
                gs'.comboTimer = gs.comboTimer - MAX_DELTA]_vars

\* the second hit of the session landed in the frame in which the timer of
\* the first ran out: the reset was published, then the hit, and the combo is 1
C32_Witness ==
    /\ game.last = "animate"
    /\ gs.housesHit = 2
    /\ gs.combo = 1
    /\ gs.bestCombo = 1
    /\ gs.comboTimer = TIMEOUT_MS
    /\ \E i, j \in 1 .. Len(events) :
          /\ i < j
          /\ events[i].name = "combo:changed" /\ events[i].combo = 0
          /\ events[j].name = "house:hit" /\ events[j].combo = 1

\* ---- C33 ----
\* the step is a playing frame, or a call of _updateHomeowners by a caller of
\* its own
HomeownersUpdated ==
    \/ game'.last = "animate" /\ Playing
    \/ game'.last = "homeowners:update"

\* the homeowners whose update of this step queues a drop
Queueing ==
    {i \in 1 .. Len(homeowners) :
        HomeownerUpdate(homeowners[i], game'.delta).pendingDrops # <<>>}

\* the pickups the step put into the pool: in a frame they have been updated
\* once since, in a bare call they are the end of the pool
FreshPickups ==
    IF game'.last = "animate"
    THEN {k \in 1 .. Len(panicPoints') : panicPoints'[k].timeAlive = MAX_DELTA}
    ELSE Len(panicPoints) + 1 .. Len(panicPoints')

\* C33: every drop a homeowner queues becomes exactly one pickup of the pool
\* in the same frame, also a drop queued in the update in which the homeowner
\* expires; no homeowner of the pool has a drop pending when the frame is
\* over; and an update queues at most one drop per homeowner.
C33_DropsBecomePickups ==
    /\ [](\A i \in 1 .. Len(homeowners) : homeowners[i].pendingDrops = <<>>)
    /\ [][HomeownersUpdated =>
             /\ \A i \in 1 .. Len(homeowners) :
                   Len(HomeownerUpdate(homeowners[i], game'.delta).pendingDrops) <= 1
             /\ Cardinality(FreshPickups) = Cardinality(Queueing)
             /\ \A i \in Queueing :
                   LET drop == HomeownerUpdate(homeowners[i], game'.delta).pendingDrops[1] IN
                   Cardinality({k \in FreshPickups :
                                   /\ panicPoints'[k].x = drop.x
                                   /\ panicPoints'[k].z = drop.z
                                   /\ panicPoints'[k].alive
                                   /\ ~panicPoints'[k].collected}) = 1
             /\ game'.last = "homeowners:update" =>
                   SubSeq(panicPoints', 1, Len(panicPoints)) = panicPoints]_vars

\* one homeowner was updated three times, queued a drop each time and expired
\* in the third: its three pickups are in the pool and it has left its own
C33_Witness ==
    /\ game.last = "homeowners:update"
    /\ game.updates = 3
    /\ game.delta > DROP_INTERVAL
    /\ homeowners = <<>>
    /\ Len(panicPoints) = 3

\* ---- C34 ----
\* the houses a throw made in the current state may aim at: not hit, strictly
\* ahead of the player and less than TARGET_RANGE ahead
Aimable ==
    {i \in 1 .. Len(streetGen.houses) :
        /\ ~streetGen.houses[i].isHit
        /\ streetGen.houses[i].z < player.z
        /\ player.z - streetGen.houses[i].z < TARGET_RANGE}

\* house i is strictly before house j in the choice: nearer to the player, or
\* as near and in a nearer row, or as near, in the same row and earlier in
\* the pool
AimedBefore(i, j) ==
    LET di == Dist2(streetGen.houses[i].x - player.x, streetGen.houses[i].z - player.z)
        dj == Dist2(streetGen.houses[j].x - player.x, streetGen.houses[j].z - player.z)
    IN \/ di < dj
       \/ /\ di = dj
          /\ \/ streetGen.houses[i].z > streetGen.houses[j].z
             \/ streetGen.houses[i].z = streetGen.houses[j].z /\ i < j

\* the envelope the frame spawned and what one update has made of an envelope
\* thrown from the player's place in direction dir
Thrown == player'.envelopes[Len(player'.envelopes)]

FliesAlong(e, dir) ==
    LET step == IF player.ready THEN Scale(ENVELOPE_SPEED, MAX_DELTA) ELSE 0 IN
    /\ e.dirX = dir.x
    /\ e.dirZ = dir.z
    /\ e.x = player.x + Scale(dir.x, step)
    /\ e.z = player.z + Scale(dir.z, step)
    /\ e.distanceTraveled = step

StreetUpdated ==
    \/ game'.last = "animate" /\ Playing
    \/ game'.last = "street:update"

\* the playerZ the update was given: in a frame the player's position before
\* the frame moved it
UpdatePlayerZ == IF game'.last = "animate" THEN player.z ELSE game'.playerZ

\* the step replaces the street: construction, restart, reset
StreetReplaced == game'.last \in {"new", "restart", "street:new", "street:reset"}

\* C35: after every update(delta, playerZ) the pools hold no house with
\* z > playerZ + CLEANUP_DISTANCE and no agent with alive = false; a house
\* leaves the pool only that way or by a reset: a house not that far behind
\* is still in the pool after the update, hit or not, and a hit house stays
\* hit.
C35_HousesLeaveByDistance ==
    [][/\ StreetUpdated =>
            /\ \A k \in 1 .. Len(streetGen'.houses) :
                  ~(streetGen'.houses[k].z > UpdatePlayerZ + CLEANUP_DISTANCE)
            /\ AllAlive(streetGen'.agents)
            /\ \A j \in 1 .. Len(streetGen.houses) :
                  ~(streetGen.houses[j].z > UpdatePlayerZ + CLEANUP_DISTANCE) =>
                     \E k \in 1 .. Len(streetGen'.houses) :
                        /\ SamePlace(streetGen'.houses[k], streetGen.houses[j])
                        /\ streetGen.houses[j].isHit => streetGen'.houses[k].isHit
       /\ (~StreetUpdated /\ ~StreetReplaced) => streetGen'.houses = streetGen.houses]_vars

\* the house the player hit stayed in the pool until it was CLEANUP_DISTANCE
\* behind and has now left it, as has the agent that passed the player
C35_Witness ==
    /\ game.last = "animate"
    /\ gs.housesHit = 1
    /\ HitHouses(streetGen) = {}
    /\ streetGen.houses # <<>>
    /\ \A k \in 1 .. Len(streetGen.houses) :
          ~(streetGen.houses[k].z > player.z + CLEANUP_DISTANCE + UNIT)
    /\ \A k \in 1 .. Len(streetGen.agents) : streetGen.agents[k].z < player.z
    /\ player.z < -65 * UNIT

\* ---- C36 ----
\* C36: the frame's algorithm runs only while a session is being played: a
\* frame rendered while the game is over (or not started) leaves the game
\* state, the player, the pools, the street generator and the spectacle's
\* timers as they were and publishes no event, and once the game is over the
\* score, the lives and the combo change only by a restart.
C36_IdleFramesChangeNothing ==
    [][/\ (game'.last = "animate" /\ ~Playing) =>
             /\ gs' = gs
             /\ player' = player
             /\ streetGen' = streetGen
             /\ homeowners' = homeowners
             /\ panicPoints' = panicPoints
             /\ spectacle' = spectacle
             /\ events' = <<>>
       /\ (gs.gameOver /\ game'.last # "restart") =>
             /\ gs'.score = gs.score
             /\ gs'.lives = gs.lives
             /\ gs'.combo = gs.combo
             /\ gs'.gameOver]_vars

\* a frame was rendered on the game-over screen: the envelopes in flight and
\* the flash and shake of the fatal hit are as that hit's frame left them
C36_Witness ==
    /\ game.last = "animate"
    /\ gs.gameOver
    /\ gs.lives = 0
    /\ events = <<>>
    /\ player.envelopes # <<>>
    /\ player.invincibleTimer = INVINCIBILITY_DURATION
    /\ spectacle.flashTimer = PLAYER_HIT_FLASH_DURATION - MAX_DELTA
    /\ spectacle.shakeTimer = DAMAGE_SHAKE_DURATION - MAX_DELTA

\* ---- C37 ----
GameOverEvents == EventsNamed(events, "game:over")

\* C37: once GAME_OVER is published for a session the score and the best
\* score do not change until the restart: the score GAME_OVER carries is the
\* score the session ends with, no scoring step follows the fatal collision
\* in its frame, and no later step but the restart changes either.
C37_GameOverCarriesFinalScore ==
    /\ [](\A i \in GameOverEvents :
             /\ events[i].score = gs.score
             /\ \A j \in EventsNamed(events, "score:changed") : j < i)
    /\ [][(gs.gameOver /\ game'.last # "restart") =>
             gs'.score = gs.score /\ gs'.bestScore = gs.bestScore]_vars

\* C38: the throw input is edge-triggered, single-consume and not carried
\* across states: one press of the Space key (the keydown, the auto-repeat
\* keydowns of the held key, the keyup) makes throwPressed read true at most
\* once, and a frame never spawns an envelope for a press that was made on the
\* game-over screen.
OneReadPerPress == game.reads <= 1

StalePressThrown ==
    /\ game'.last = "animate"
    /\ game.input.throwJustPressed
    /\ game.pressedOver
    /\ gs'.totalThrown > gs.totalThrown

C38_ThrowNotCarriedOver == []OneReadPerPress /\ [][~StalePressThrown]_vars

\* C39: GAME_OVER is published once per session.  A step publishes it at most
\* once, right after the one PLAYER_DIED of the step, and that step ends the
\* session (gameOver goes from false to true); nothing of the fatal frame
\* publishes PLAYER_HIT or LIVES_CHANGED after it, and AGENT_COLLISION only
\* for the collision that was fatal; and from then on, until the restart
\* button is clicked, the game stays over and no GAME_OVER, PLAYER_DIED,
\* PLAYER_HIT, LIVES_CHANGED or AGENT_COLLISION is published.
Published(name, evs) == {i \in 1..Len(evs) : evs[i].name = name}

DamageEvents ==
    {"game:over", "player:died", "player:hit", "lives:changed", "agent:collision"}

GameOverOnce ==
    LET over == Published("game:over", events')
        died == Published("player:died", events')
    IN /\ Cardinality(over) <= 1
       /\ \A i \in over :
             /\ ~gs.gameOver
             /\ gs'.gameOver
             /\ died = {i - 1}
             /\ \A j \in (i + 1)..Len(events') :
                   events'[j].name \notin {"player:hit", "lives:changed"}
             /\ Cardinality(Published("agent:collision", events')) = 1
       /\ died # {} => over # {}

QuietUntilRestart ==
    gs.gameOver /\ game'.last # "restart" =>
        /\ gs'.gameOver
        /\ \A i \in 1..Len(events') : events'[i].name \notin DamageEvents

C39_GameOverOncePerSession == [][GameOverOnce /\ QuietUntilRestart]_vars

\* the game ended, frames went by on the game-over screen, and the session
\* after the restart is under way
C39_Witness ==
    /\ game.restarts = 1
    /\ game.last = "animate"
    /\ ~gs.gameOver
    /\ gs.totalThrown > 0

\* C40: restarting the game does not change the subscriptions of the event
\* bus.  A restart leaves the listeners of every topic as they were; after any
\* number of restarts the bus holds exactly the subscriptions the Game
\* constructor made, so publishing any event calls each of its handlers once,
\* and the restart event itself reaches restart() once.
Calls(t, cb) ==
    LET d == EmitResult(listeners, t).delivered IN
    Cardinality({i \in 1..Len(d) : d[i].cb = cb})

Handlers(t) ==
    LET arr == GameSubscribes(GameBusNew, 0)[t] IN {arr[i].cb : i \in 1..Len(arr)}

EachHandlerOnce ==
    game.constructed =>
        /\ listeners = GameSubscribes(GameBusNew, 0)
        /\ \A t \in GameTopics :
              /\ Len(EmitResult(listeners, t).delivered) = Cardinality(Handlers(t))
              /\ \A cb \in Handlers(t) : Calls(t, cb) = 1
        /\ lastEmit.topic = "game:restart" =>
              /\ Len(lastEmit.delivered) = 1
              /\ lastEmit.delivered[1].cb = "restart"

RestartKeepsListeners == game'.last = "restart" => listeners' = listeners

C40_RestartKeepsSubscriptions == []EachHandlerOnce /\ [][RestartKeepsListeners]_vars

\* the game was restarted more than once, and the last session produced
\* events in a frame
C40_Witness ==
    /\ game.restarts >= 2
    /\ game.last = "animate"
    /\ events # <<>>

=============================================================================
